---------------------------- MODULE Spec2Model ----------------------------
(***************************************************************************)
(* A model of the AVM2 core of ruffle: class verification                  *)
(* (core/src/avm2/class.rs) and, from core/src/avm2.rs, the operand and    *)
(* scope stacks, the broadcast list and the loading of ABC files.          *)
(***************************************************************************)
EXTENDS Integers, Sequences, FiniteSets, TLC

VARIABLES
    classes,        \* class definitions: ClassIds -> Class record
    verify,         \* the last validate_class call and what it returned
    stack,          \* Avm2::stack, the operand stack
    scope_stack,    \* Avm2::scope_stack
    frames,         \* the activations in progress, innermost last
    last,           \* the last stack operation: its name, argument and result
    broadcast_list, \* Avm2::broadcast_list: event name -> listener objects
    bcast,          \* the broadcast_event call in progress or last finished
    bop,            \* the last operation on the broadcast list
    abc,            \* the last do_abc call: its inputs and what it did
    loading,        \* a class of an ABC file and the load_traits calls on it
    generic,        \* the class cells of Vector and of its applications
    number,         \* the last call of a method of Number and its result
    dispatch,       \* the last dispatch_event call and its result
    prefs,          \* the preferences document holder and the last setter call
    cinit,          \* classes, the runs of their initializers and those in progress
    calls           \* Avm2::call_stack, the calls in progress and the last return

vars == <<classes, verify, stack, scope_stack, frames, last,
          broadcast_list, bcast, bop, abc, loading, generic, number, dispatch,
          prefs, cinit, calls>>

verify_vars == <<classes, verify>>

stack_vars == <<stack, scope_stack, frames, last>>

broadcast_vars == <<broadcast_list, bcast, bop>>

\* the state of the desktop frontend
more_vars == <<prefs, cinit, calls>>

\* the state of the class loader and of the builtin classes
lib_vars == <<loading, generic, number, dispatch, more_vars>>

\* the state of the host-facing entry points of Avm2
host_vars == <<broadcast_vars, abc, lib_vars>>

None == "None"

\* Option::None where a Value may stand
NoValue == [tag |-> "None"]

\* Option::Some
Some(value) == [tag |-> "Some", value |-> value]

\* Result values
Ok == [tag |-> "Ok"]

OkWith(value) == [tag |-> "Ok", value |-> value]

Err(error) == [tag |-> "Err", error |-> error]

\* slice::get with a 0-based index
get(vec, index) == IF index < Len(vec) THEN vec[index + 1] ELSE NoValue

\* FnvHashMap::default: the map without keys
EmptyMap == [k \in {} |-> <<>>]

-----------------------------------------------------------------------------
(* Bounds *)

\* the number of instance traits defined over all classes
MaxTraits == 3

\* the number of nested activations
MaxFrames == 2

\* max_stack of the method bodies of the model
MaxStackSize == 1

\* max_scope_depth of the method bodies of the model
MaxScopeSize == 0

\* the largest index passed to peek
MaxPeekIndex == 2

\* the largest arg_count passed to pop_args
MaxArgs == 2

\* the number of objects that register as broadcast listeners
MaxListeners == 3

\* the number of scripts of an ABC file
MaxScripts == 3

-----------------------------------------------------------------------------
(* Class and trait model: core/src/avm2/class.rs *)

\* The classes of the model: D extends C extends Base.
ClassIds == {"Base", "C", "D"}

LocalNames == {"foo", "bar"}

TraitKinds == {"Method", "Getter", "Setter"}

public_namespace == "public"

\* Trait: a QName, a kind and the attributes final and override
Trait(local_name, namespace, kind, is_final, is_override) ==
    [local_name |-> local_name, namespace |-> namespace, kind |-> kind,
     is_final |-> is_final, is_override |-> is_override]

\* The attribute combinations of the traits added to class c. validate_class
\* reads is_override of the traits of the class it verifies (D in this model)
\* and is_final of the traits of its ancestors.
TraitAttributes(c) ==
    IF c = "D"
    THEN { [is_final |-> FALSE, is_override |-> o] : o \in BOOLEAN }
    ELSE { [is_final |-> f, is_override |-> FALSE] : f \in BOOLEAN }

\* The traits that may be added to class c: public traits foo of every kind,
\* methods foo in the protected namespace of c, and public methods bar.
TraitInputs(c) ==
    { Trait("foo", public_namespace, k, a.is_final, a.is_override) :
        k \in TraitKinds, a \in TraitAttributes(c) }
    \cup { Trait("foo", classes[c].protected_namespace, "Method", a.is_final, a.is_override) :
        a \in { b \in TraitAttributes(c) : classes[c].protected_namespace # None } }
    \cup { Trait("bar", public_namespace, "Method", a.is_final, a.is_override) :
        a \in TraitAttributes(c) }

\* ClassAttributes
SEALED == "SEALED"
FINAL == "FINAL"
INTERFACE == "INTERFACE"
GENERIC == "GENERIC"

\* Class::new: a class defined by native code is a system class with its
\* (empty) traits loaded, without attributes, type parameter, protected
\* namespace, call handler and applications.
Class_new(name, super_class, instance_init, class_init) ==
    [name |-> name,
     param |-> NoValue,
     super_class |-> super_class,
     attributes |-> {},
     protected_namespace |-> None,
     instance_init |-> instance_init,
     instance_traits |-> <<>>,
     class_init |-> class_init,
     class_initializer_called |-> FALSE,
     call_handler |-> NoValue,
     class_traits |-> <<>>,
     traits_loaded |-> TRUE,
     is_system |-> TRUE,
     applications |-> EmptyMap]

\* An instance_info and a class_info entry of an ABC file. super_name is an
\* index into the multinames of the file, 0 for a class without superclass;
\* init_method is an index into its methods.
AbcInstance(name, super_name, protected_namespace, is_final, init_method, traits) ==
    [name |-> name, super_name |-> super_name,
     protected_namespace |-> protected_namespace,
     is_sealed |-> FALSE, is_final |-> is_final, is_interface |-> FALSE,
     init_method |-> init_method, traits |-> traits]

AbcClass(init_method, traits) == [init_method |-> init_method, traits |-> traits]

\* a trait_info entry that converts to my_trait, and one that does not convert
AbcTrait(my_trait) == [valid |-> TRUE, trait |-> my_trait]

BadAbcTrait == [valid |-> FALSE]

\* TranslationUnit::load_method
load_method(unit, index) == unit.methods[index + 1]

\* TranslationUnit::pool_multiname_static
pool_multiname_static(unit, index) == unit.multinames[index]

\* Trait::from_abc_trait
from_abc_trait(unit, abc_trait) ==
    IF abc_trait.valid THEN OkWith(abc_trait.trait)
    ELSE Err("from_abc_trait")

\* Class::from_abc_index: a class of an ABC file is not a system class and
\* has no traits loaded. domain maps the names of the defined classes to the
\* classes.
from_abc_index(unit, class_index, domain) ==
    LET abc_class == get(unit.classes, class_index)
        abc_instance == get(unit.instances, class_index)
    IN  IF abc_class = NoValue THEN Err("LoadError: Class index not valid")
        ELSE IF abc_instance = NoValue
        THEN Err("LoadError: Instance index not valid")
        ELSE IF /\ abc_instance.super_name # 0
                /\ pool_multiname_static(unit, abc_instance.super_name)
                       \notin DOMAIN domain
        THEN Err("make_error_1014")
        ELSE OkWith(
            [name |-> abc_instance.name,
             param |-> NoValue,
             super_class |->
                 IF abc_instance.super_name = 0 THEN None
                 ELSE domain[pool_multiname_static(unit, abc_instance.super_name)],
             attributes |->
                 { a \in {SEALED, FINAL, INTERFACE} :
                     \/ a = SEALED /\ abc_instance.is_sealed
                     \/ a = FINAL /\ abc_instance.is_final
                     \/ a = INTERFACE /\ abc_instance.is_interface },
             protected_namespace |-> abc_instance.protected_namespace,
             instance_init |-> load_method(unit, abc_instance.init_method),
             instance_traits |-> <<>>,
             class_init |-> load_method(unit, abc_class.init_method),
             class_initializer_called |-> FALSE,
             call_handler |-> NoValue,
             class_traits |-> <<>>,
             traits_loaded |-> FALSE,
             is_system |-> FALSE,
             applications |-> EmptyMap])

\* Namespace::matches_ns and Namespace::exact_version_match: namespaces of
\* one API version match when they are the same namespace.
matches_ns(a, b) == a = b

exact_version_match(a, b) == a = b

\* ClassObject::inner_class_definition and ClassObject::superclass_object: a
\* class object is named by its class, its superclass object by super_class.
inner_class_definition(obj) == obj

superclass_object(obj) == classes[obj].super_class

\* Class::validate_class, lines 512-514
is_protected(self, instance_trait) ==
    /\ classes[self].protected_namespace # None
    /\ exact_version_match(classes[self].protected_namespace, instance_trait.namespace)

\* names_match without the protected-namespace alternative of lines 529-532
names_match_no_protected(self, instance_trait, superclass_def, supertrait) ==
    /\ supertrait.local_name = instance_trait.local_name
    /\ matches_ns(supertrait.namespace, instance_trait.namespace)

\* Class::validate_class, lines 527-532
names_match(self, instance_trait, superclass_def, supertrait) ==
    /\ supertrait.local_name = instance_trait.local_name
    /\ \/ matches_ns(supertrait.namespace, instance_trait.namespace)
       \/ /\ is_protected(self, instance_trait)
          /\ classes[superclass_def].protected_namespace # None
          /\ exact_version_match(classes[superclass_def].protected_namespace,
                                 supertrait.namespace)

\* the exemption without its second arm (line 537)
getter_setter_pair_one_way(supertrait, instance_trait) ==
    supertrait.kind = "Getter" /\ instance_trait.kind = "Setter"

\* Class::validate_class, lines 536-537
getter_setter_pair(supertrait, instance_trait) ==
    \/ supertrait.kind = "Getter" /\ instance_trait.kind = "Setter"
    \/ supertrait.kind = "Setter" /\ instance_trait.kind = "Getter"

ErrFinal == "VerifyError: overrides final trait"
ErrNoOverride == "VerifyError: has same name, but does not override it"
ErrUnmatched == "VerifyError: marked as override, does not override any other trait"

\* The loop over the traits of one superclass (lines 523-551), from index i:
\* an error, "did_override" (the break at line 549) or "no_match".
RECURSIVE scan_supertraits(_, _, _, _)
scan_supertraits(self, instance_trait, superclass_def, i) ==
    LET traits == classes[superclass_def].instance_traits IN
    IF i > Len(traits) THEN "no_match"
    ELSE LET supertrait == traits[i] IN
         IF names_match(self, instance_trait, superclass_def, supertrait)
         THEN IF getter_setter_pair(supertrait, instance_trait)
              THEN scan_supertraits(self, instance_trait, superclass_def, i + 1)
              ELSE IF supertrait.is_final THEN ErrFinal
              ELSE IF ~instance_trait.is_override THEN ErrNoOverride
              ELSE "did_override"
         ELSE scan_supertraits(self, instance_trait, superclass_def, i + 1)

\* the walk without the break of lines 555-557: a final trait further up the
\* chain is still found
RECURSIVE walk_superclasses_transitive(_, _, _)
walk_superclasses_transitive(self, instance_trait, current_superclass) ==
    IF current_superclass = None THEN "no_match"
    ELSE LET r == scan_supertraits(self, instance_trait,
                                   inner_class_definition(current_superclass), 1)
             up == walk_superclasses_transitive(self, instance_trait,
                                                superclass_object(current_superclass))
         IN  IF r = "no_match" THEN up
             ELSE IF r = "did_override" /\ up \in {ErrFinal, ErrNoOverride} THEN up
             ELSE r

\* The walk up the superclass chain (lines 516-560)
RECURSIVE walk_superclasses(_, _, _)
walk_superclasses(self, instance_trait, current_superclass) ==
    IF current_superclass = None THEN "no_match"
    ELSE LET r == scan_supertraits(self, instance_trait,
                                   inner_class_definition(current_superclass), 1) IN
         IF r = "no_match"
         THEN walk_superclasses(self, instance_trait,
                                superclass_object(current_superclass))
         ELSE r

\* the loop body without the check of lines 562-564
check_instance_trait_no_unmatched(self, instance_trait, superclass) ==
    LET r == walk_superclasses(self, instance_trait, superclass) IN
    IF r \in {ErrFinal, ErrNoOverride} THEN r ELSE "Ok"

\* The body of the loop over the instance traits (lines 511-565)
check_instance_trait(self, instance_trait, superclass) ==
    LET r == walk_superclasses(self, instance_trait, superclass) IN
    IF r \in {ErrFinal, ErrNoOverride} THEN r
    ELSE IF instance_trait.is_override /\ r # "did_override" THEN ErrUnmatched
    ELSE "Ok"

\* the loop of line 511 leaving after the first instance trait
validate_traits_first_only(self, superclass, i) ==
    IF i > Len(classes[self].instance_traits) THEN "Ok"
    ELSE check_instance_trait(self, classes[self].instance_traits[i], superclass)

\* The loop over the instance traits (line 511), from index i
RECURSIVE validate_traits(_, _, _)
validate_traits(self, superclass, i) ==
    IF i > Len(classes[self].instance_traits) THEN "Ok"
    ELSE LET r == check_instance_trait(self, classes[self].instance_traits[i], superclass) IN
         IF r # "Ok" THEN r ELSE validate_traits(self, superclass, i + 1)

\* validate_class without the early return of lines 506-508
validate_class_no_system(self, superclass) ==
    IF superclass # None THEN validate_traits(self, superclass, 1) ELSE "Ok"

\* validate_class with the check of lines 562-564 made without superclass too
validate_class_override_checked(self, superclass) ==
    IF classes[self].is_system THEN "Ok"
    ELSE IF superclass # None THEN validate_traits(self, superclass, 1)
    ELSE IF \E i \in 1..Len(classes[self].instance_traits) :
                classes[self].instance_traits[i].is_override
    THEN ErrUnmatched
    ELSE "Ok"

\* Class::validate_class
validate_class(self, superclass) ==
    IF classes[self].is_system THEN "Ok"
    ELSE IF superclass # None THEN validate_traits(self, superclass, 1)
    ELSE "Ok"

-----------------------------------------------------------------------------
(* Actions *)

\* the initializer of the classes defined by native code
NativeInit == "native_init"

\* The ABC file that defines C and D: C extends Base, D extends C, each with
\* a protected namespace.
VerifyUnit ==
    [methods |-> <<"C/iinit", "C/cinit", "D/iinit", "D/cinit">>,
     multinames |-> <<"Base", "C">>,
     instances |-> << AbcInstance("C", 1, "protected:C", FALSE, 0, <<>>),
                      AbcInstance("D", 2, "protected:D", FALSE, 2, <<>>) >>,
     classes |-> << AbcClass(1, <<>>), AbcClass(3, <<>>) >>]

\* Domain::get_class: the classes of the model are found under their names
VerifyDomain == [c \in ClassIds |-> c]

RECURSIVE SumLen(_)
SumLen(S) ==
    IF S = {} THEN 0
    ELSE LET c == CHOOSE x \in S : TRUE IN
         Len(classes[c].instance_traits) + SumLen(S \ {c})

\* the number of instance traits of all classes
TraitCount == SumLen(ClassIds)

\* the sequences over S of length at most n
RECURSIVE SeqsUpTo(_, _)
SeqsUpTo(S, n) ==
    IF n = 0 THEN { <<>> }
    ELSE LET shorter == SeqsUpTo(S, n - 1) IN
         shorter \cup { Append(q, x) : q \in { r \in shorter : Len(r) = n - 1 }, x \in S }

\* Class::define_instance_trait, called by native code on a builtin class
define_instance_trait(c, my_trait) ==
    /\ verify.result = None
    /\ classes[c].is_system
    /\ TraitCount < MaxTraits
    /\ classes' = [classes EXCEPT ![c].instance_traits = Append(@, my_trait)]
    /\ UNCHANGED verify

\* the loops of Class::load_traits over the traits of the ABC file (lines
\* 486-489 and 491-494), from index k: the vector after the loop and Ok, or
\* the vector when from_abc_trait failed and its error
RECURSIVE push_traits(_, _, _, _)
push_traits(vec, unit, abc_traits, k) ==
    IF k > Len(abc_traits) THEN [vec |-> vec, result |-> Ok]
    ELSE LET converted == from_abc_trait(unit, abc_traits[k]) IN
         IF converted.tag = "Err" THEN [vec |-> vec, result |-> converted]
         ELSE push_traits(Append(vec, converted.value), unit, abc_traits, k + 1)

\* load_traits without the guard of lines 467-469
load_traits_unguarded(self, unit, class_index) ==
    LET loaded == [self EXCEPT !.traits_loaded = TRUE]
        abc_class == get(unit.classes, class_index)
        abc_instance == get(unit.instances, class_index)
    IN  IF abc_class = NoValue
        THEN [self |-> loaded, result |-> Err("LoadError: Class index not valid")]
        ELSE IF abc_instance = NoValue
        THEN [self |-> loaded, result |-> Err("LoadError: Instance index not valid")]
        ELSE LET i == push_traits(loaded.instance_traits, unit, abc_instance.traits, 1) IN
             IF i.result.tag = "Err"
             THEN [self |-> [loaded EXCEPT !.instance_traits = i.vec],
                   result |-> i.result]
             ELSE LET c == push_traits(loaded.class_traits, unit, abc_class.traits, 1) IN
                  [self |-> [loaded EXCEPT !.instance_traits = i.vec,
                                           !.class_traits = c.vec],
                   result |-> c.result]

\* load_traits that clears the flag of line 471 when from_abc_trait fails
load_traits_flag_cleared(self, unit, class_index) ==
    LET r == load_traits_unguarded(self, unit, class_index) IN
    IF self.traits_loaded THEN [self |-> self, result |-> Ok]
    ELSE IF r.result = Err("from_abc_trait")
    THEN [self |-> [r.self EXCEPT !.traits_loaded = FALSE], result |-> r.result]
    ELSE r

\* Class::load_traits: the class after the call and the value returned. The
\* flag is set before anything is read from the ABC file.
load_traits(self, unit, class_index) ==
    IF self.traits_loaded THEN [self |-> self, result |-> Ok]
    ELSE LET loaded == [self EXCEPT !.traits_loaded = TRUE]
             abc_class == get(unit.classes, class_index)
             abc_instance == get(unit.instances, class_index)
         IN  IF abc_class = NoValue
             THEN [self |-> loaded, result |-> Err("LoadError: Class index not valid")]
             ELSE IF abc_instance = NoValue
             THEN [self |-> loaded, result |-> Err("LoadError: Instance index not valid")]
             ELSE LET i == push_traits(loaded.instance_traits, unit, abc_instance.traits, 1) IN
                  IF i.result.tag = "Err"
                  THEN [self |-> [loaded EXCEPT !.instance_traits = i.vec],
                        result |-> i.result]
                  ELSE LET c == push_traits(loaded.class_traits, unit, abc_class.traits, 1) IN
                       [self |-> [loaded EXCEPT !.instance_traits = i.vec,
                                                !.class_traits = c.vec],
                        result |-> c.result]

\* the ABC file of the verified classes with abc_instance_traits as the
\* instance traits of the class at class_index
WithInstanceTraits(class_index, abc_instance_traits) ==
    [VerifyUnit EXCEPT !.instances[class_index + 1].traits =
        [k \in 1..Len(abc_instance_traits) |-> AbcTrait(abc_instance_traits[k])]]

\* A call of Class::load_traits on class c
LoadTraits(c, abc_instance_traits) ==
    LET class_index == IF c = "D" THEN 1 ELSE 0 IN
    /\ verify.result = None
    /\ classes' = [classes EXCEPT
            ![c] = load_traits(@, WithInstanceTraits(class_index, abc_instance_traits),
                               class_index).self]
    /\ UNCHANGED verify

\* A call of Class::validate_class(superclass) on class c
ValidateClass(c, superclass) ==
    /\ verify.result = None
    /\ verify' = [class |-> c, superclass |-> superclass,
                  result |-> validate_class(c, superclass)]
    /\ UNCHANGED classes

\* Base is a builtin class, C a class of an ABC file that extends it, and D
\* extends C and is either.
ClassTable(sys) ==
    [c \in ClassIds |->
        CASE c = "Base" -> Class_new("Base", None, NativeInit, NativeInit)
          [] c = "C" -> from_abc_index(VerifyUnit, 0, VerifyDomain).value
          [] c = "D" -> IF sys THEN Class_new("D", "C", NativeInit, NativeInit)
                               ELSE from_abc_index(VerifyUnit, 1, VerifyDomain).value]

\* no broadcast_event call has been made. A call in progress is in state
\* "handler" (the handlers of a listener are running), a finished one in
\* state "done". start_bucket, late and prev_late record the bucket at the
\* start of the call, the listeners added to it during the call, and those
\* added during the call before.
IdleBroadcast ==
    [state |-> "idle", event_name |-> None, on_type |-> None, el_length |-> 0,
     i |-> 0, result |-> None, delivered |-> <<>>, start_bucket |-> <<>>,
     late |-> <<>>, prev_late |-> <<>>]

\* Avm2::new: empty stacks, no activation
InitAvm2 ==
    /\ stack = <<>>
    /\ scope_stack = <<>>
    /\ frames = <<>>
    /\ last = [op |-> None, arg |-> None, ret |-> None]
    /\ broadcast_list = EmptyMap
    /\ bcast = IdleBroadcast
    /\ bop = [op |-> None, object |-> None, event_name |-> None]
    /\ abc = [called |-> FALSE]
    /\ loading = [created |-> FALSE]
    /\ generic = [called |-> FALSE]
    /\ number = [called |-> FALSE]
    /\ dispatch = [called |-> FALSE]
    /\ prefs = [opened |-> FALSE]
    /\ cinit = [classes |-> <<>>, runs |-> <<>>, running |-> <<>>, reentered |-> {}]
    /\ calls = [call_stack |-> <<>>, running |-> <<>>,
                last |-> [op |-> None, before |-> 0, after |-> 0, result |-> Ok,
                          pushed |-> FALSE]]

InitVerify ==
    /\ \E sys \in BOOLEAN : classes = ClassTable(sys)
    /\ verify = [class |-> None, superclass |-> None, result |-> None]
    /\ InitAvm2

NextVerify ==
    \/ \E c \in ClassIds : \E t \in TraitInputs(c) :
         define_instance_trait(c, t) /\ UNCHANGED <<stack_vars, host_vars>>
    \/ \E c \in ClassIds :
         \E ts \in SeqsUpTo(TraitInputs(c), MaxTraits - TraitCount) :
            LoadTraits(c, ts) /\ UNCHANGED <<stack_vars, host_vars>>
    \/ \E s \in {None, classes["D"].super_class} :
         ValidateClass("D", s) /\ UNCHANGED <<stack_vars, host_vars>>

SpecVerify == InitVerify /\ [][NextVerify]_vars

-----------------------------------------------------------------------------
(* Class verification: the vocabulary of the claims *)

VerifyErrors == {ErrFinal, ErrNoOverride, ErrUnmatched}

\* validate_class has been called on a class that is not a system class
Verified == verify.result # None /\ ~classes[verify.class].is_system

\* ... and was given a superclass
VerifiedAgainstSuper == Verified /\ verify.superclass # None

OwnTraits == classes[verify.class].instance_traits

\* the ancestors walked from the superclass given to validate_class, nearest first
RECURSIVE Ancestors(_)
Ancestors(c) == IF c = None THEN <<>> ELSE <<c>> \o Ancestors(classes[c].super_class)

\* ancestor trait s of class a has the name of trait t of the verified class:
\* the same local name, and the same namespace or both in the protected
\* namespace of their own class
SameName(t, a, s) ==
    /\ s.local_name = t.local_name
    /\ \/ s.namespace = t.namespace
       \/ /\ t.namespace = classes[verify.class].protected_namespace
          /\ s.namespace = classes[a].protected_namespace

AccessorPair(t, s) == {t.kind, s.kind} = {"Getter", "Setter"}

\* the places <<d, j>> (d-th ancestor, j-th trait) of the ancestor traits with
\* the name of t, getter/setter pairs included
NameSites(t) ==
    LET chain == Ancestors(verify.superclass) IN
    { p \in (1..Len(chain)) \X (1..(MaxTraits + 1)) :
        /\ p[2] <= Len(classes[chain[p[1]]].instance_traits)
        /\ SameName(t, chain[p[1]], classes[chain[p[1]]].instance_traits[p[2]]) }

SiteTrait(p) == classes[Ancestors(verify.superclass)[p[1]]].instance_traits[p[2]]

\* ... the matching ones: getter/setter pairs excluded
MatchSites(t) == { p \in NameSites(t) : ~AccessorPair(t, SiteTrait(p)) }

\* the first matching ancestor trait: nearest ancestor, then first in its list
FirstMatch(t) ==
    SiteTrait(CHOOSE p \in MatchSites(t) :
        \A q \in MatchSites(t) : p[1] < q[1] \/ (p[1] = q[1] /\ p[2] <= q[2]))

\* t overrides its first matching ancestor trait, which is not final
ValidOverride(t) ==
    MatchSites(t) # {} /\ t.is_override /\ ~FirstMatch(t).is_final

-----------------------------------------------------------------------------
(* C1 *)

\* C1 as claimed: a class with its traits loaded that is not a system class
\* passes validate_class iff every instance trait has no same-name ancestor
\* trait, or carries override and its first matching ancestor trait is not
\* final.
C1_AsClaimed ==
    (Verified /\ classes[verify.class].traits_loaded) =>
        (verify.result = "Ok" <=>
            \A i \in 1..Len(OwnTraits) :
                MatchSites(OwnTraits[i]) = {} \/ ValidOverride(OwnTraits[i]))

\* C1 as amended: a class with its traits loaded that is not a system class
\* passes validate_class iff no superclass is given, or every instance trait
\* either has no same-name ancestor trait and does not carry override, or
\* carries override and its first matching ancestor trait is not final.
C1_VerifyIff ==
    (Verified /\ classes[verify.class].traits_loaded) =>
        (verify.result = "Ok" <=>
            \/ verify.superclass = None
            \/ \A i \in 1..Len(OwnTraits) :
                   \/ MatchSites(OwnTraits[i]) = {} /\ ~OwnTraits[i].is_override
                   \/ ValidOverride(OwnTraits[i]))

\* a class with a valid override and a trait that shadows nothing passes
C1_Witness ==
    /\ VerifiedAgainstSuper
    /\ classes[verify.class].traits_loaded
    /\ verify.result = "Ok"
    /\ \E i, j \in 1..Len(OwnTraits) :
          /\ ValidOverride(OwnTraits[i])
          /\ MatchSites(OwnTraits[j]) = {}

-----------------------------------------------------------------------------
(* C2 *)

\* C2 as claimed: an instance trait without override that has the local name
\* and a matching namespace of an ancestor's instance trait makes
\* validate_class fail, and a class whose one declaration carries override and
\* has the name of a non-final ancestor trait is accepted.
C2_AsClaimed ==
    VerifiedAgainstSuper =>
        /\ (\E i \in 1..Len(OwnTraits) :
               ~OwnTraits[i].is_override /\ NameSites(OwnTraits[i]) # {})
             => verify.result \in VerifyErrors
        /\ ( /\ Len(OwnTraits) = 1
             /\ OwnTraits[1].is_override
             /\ \E p \in NameSites(OwnTraits[1]) : ~SiteTrait(p).is_final )
             => verify.result = "Ok"

\* C2 as amended: an instance trait without override that has the name of an
\* ancestor's instance trait, the two not being a getter/setter pair, makes
\* validate_class fail with a VerifyError; a class whose traits all carry
\* override and have a first matching ancestor trait that is not final is
\* accepted.
C2_SameNameNeedsOverride ==
    VerifiedAgainstSuper =>
        /\ (\E i \in 1..Len(OwnTraits) :
               ~OwnTraits[i].is_override /\ MatchSites(OwnTraits[i]) # {})
             => verify.result \in VerifyErrors
        /\ (\A i \in 1..Len(OwnTraits) : ValidOverride(OwnTraits[i]))
             => verify.result = "Ok"

\* D declares foo without override over a non-final foo of an ancestor
C2_Witness ==
    /\ VerifiedAgainstSuper
    /\ verify.result = ErrNoOverride
    /\ \E i \in 1..Len(OwnTraits) :
          /\ ~OwnTraits[i].is_override
          /\ MatchSites(OwnTraits[i]) # {}
          /\ ~FirstMatch(OwnTraits[i]).is_final

-----------------------------------------------------------------------------
(* C3 *)

\* C3: validate_class fails whenever the first matching ancestor trait of an
\* instance trait is final, with or without override on the child trait, and
\* it reports an override of a final trait only for a first match: a final
\* trait hidden by a nearer matching trait causes no error.
C3_FinalFirstMatch ==
    VerifiedAgainstSuper =>
        /\ (\E i \in 1..Len(OwnTraits) :
               MatchSites(OwnTraits[i]) # {} /\ FirstMatch(OwnTraits[i]).is_final)
             => verify.result \in VerifyErrors
        /\ verify.result = ErrFinal
             => \E i \in 1..Len(OwnTraits) :
                   MatchSites(OwnTraits[i]) # {} /\ FirstMatch(OwnTraits[i]).is_final
        /\ (\A i \in 1..Len(OwnTraits) : ValidOverride(OwnTraits[i]))
             => verify.result = "Ok"

\* a class is accepted although a final trait further up the chain has the
\* name of one of its traits
C3_Witness ==
    /\ VerifiedAgainstSuper
    /\ verify.result = "Ok"
    /\ \E i \in 1..Len(OwnTraits) :
          /\ ValidOverride(OwnTraits[i])
          /\ \E p \in MatchSites(OwnTraits[i]) : SiteTrait(p).is_final

-----------------------------------------------------------------------------
(* C4 *)

\* every ancestor trait with the name of t forms a getter/setter pair with t
OnlyAccessorPairs(t) == NameSites(t) # {} /\ MatchSites(t) = {}

\* C4: when each instance trait of the class meets, among the ancestor traits
\* of its name, only the other accessor of a getter/setter pair, validate_class
\* accepts the class if no trait carries override, also when the ancestor trait
\* is final, and reports an override that overrides nothing otherwise.
C4_AccessorsDoNotCollide ==
    ( /\ VerifiedAgainstSuper
      /\ \A i \in 1..Len(OwnTraits) : OnlyAccessorPairs(OwnTraits[i]) )
    => verify.result =
          IF \E i \in 1..Len(OwnTraits) : OwnTraits[i].is_override
          THEN ErrUnmatched ELSE "Ok"

\* a setter without override over a final getter of an ancestor is accepted
C4_Witness ==
    /\ VerifiedAgainstSuper
    /\ verify.result = "Ok"
    /\ \A i \in 1..Len(OwnTraits) : OnlyAccessorPairs(OwnTraits[i])
    /\ \E i \in 1..Len(OwnTraits) :
          /\ OwnTraits[i].kind = "Setter"
          /\ \E p \in NameSites(OwnTraits[i]) : SiteTrait(p).is_final

-----------------------------------------------------------------------------
(* C5 *)

\* C5 as claimed: a class that is not a system class and has an instance
\* trait with override and no matching trait in any ancestor fails
\* validate_class.
C5_AsClaimed ==
    Verified =>
        ((\E i \in 1..Len(OwnTraits) :
            OwnTraits[i].is_override /\ MatchSites(OwnTraits[i]) = {})
         => verify.result \in VerifyErrors)

\* C5 as amended: given a superclass, a class that is not a system class and
\* has an instance trait with override and no matching trait in any ancestor
\* fails validate_class, with the error "marked as override, does not override
\* any other trait" when no earlier trait fails.
C5_UnmatchedOverride ==
    VerifiedAgainstSuper =>
        \A i \in 1..Len(OwnTraits) :
            (OwnTraits[i].is_override /\ MatchSites(OwnTraits[i]) = {})
            => /\ verify.result \in VerifyErrors
               /\ (\A j \in 1..(i - 1) :
                      \/ ValidOverride(OwnTraits[j])
                      \/ MatchSites(OwnTraits[j]) = {} /\ ~OwnTraits[j].is_override)
                  => verify.result = ErrUnmatched

\* the unmatched override is the second trait of the class
C5_Witness ==
    /\ VerifiedAgainstSuper
    /\ verify.result = ErrUnmatched
    /\ Len(OwnTraits) >= 2
    /\ OwnTraits[2].is_override /\ MatchSites(OwnTraits[2]) = {}
    /\ ~OwnTraits[1].is_override

-----------------------------------------------------------------------------
(* C6 *)

\* C6: validate_class returns Ok for every system class, whatever its traits
\* and superclass, and a class made by Class::new is a system class.
C6_SystemClassesPass ==
    /\ Class_new("Base", None, NativeInit, NativeInit).is_system
    /\ (verify.result # None /\ classes[verify.class].is_system)
         => verify.result = "Ok"

\* a system class passes with a trait that shadows a final ancestor trait and
\* with an override that overrides nothing
C6_Witness ==
    /\ verify.result = "Ok"
    /\ verify.superclass # None
    /\ classes[verify.class].is_system
    /\ \E i, j \in 1..Len(OwnTraits) :
          /\ MatchSites(OwnTraits[i]) # {} /\ FirstMatch(OwnTraits[i]).is_final
          /\ OwnTraits[j].is_override /\ MatchSites(OwnTraits[j]) = {}

-----------------------------------------------------------------------------
(* Operand and scope stacks: core/src/avm2.rs *)

\* Value
Undefined == [tag |-> "Undefined"]

Integer(n) == [tag |-> "Integer", int |-> n]

\* Value::Object of a script object and of a primitive-box object
ScriptObject == [tag |-> "Object", kind |-> "ScriptObject"]

PrimitiveObject(primitive) ==
    [tag |-> "Object", kind |-> "PrimitiveObject", primitive |-> primitive]

\* TObject::as_primitive: the boxed primitive of a primitive-box object
as_primitive(o) == IF o.kind = "PrimitiveObject" THEN o.primitive ELSE NoValue

\* the values the model pushes
ValueInputs == {Integer(1), ScriptObject, PrimitiveObject(Integer(1))}

TheScope == "scope"

\* usize subtraction as a release build computes it, modulo the width of
\* usize; the model keeps 16 bits of it.
usize_sub(a, b) == (a - b) % (2 ^ 16)

\* Vec::truncate
truncate(vec, len) == IF len >= Len(vec) THEN vec ELSE SubSeq(vec, 1, len)

\* push that stores a primitive-box object as it is
push_no_unbox(self_stack, value, depth, max) ==
    IF usize_sub(Len(self_stack), depth) > max THEN self_stack
    ELSE Append(self_stack, value)

\* Avm2::push: the operand stack after the call
push(self_stack, value, depth, max) ==
    IF usize_sub(Len(self_stack), depth) > max
    THEN self_stack
    ELSE LET unboxed ==
                 IF value.tag = "Object" /\ as_primitive(value) # NoValue
                 THEN as_primitive(value) ELSE value
         IN  Append(self_stack, unboxed)

\* pop without the underflow test of line 399
pop_unguarded(self_stack, depth) ==
    IF self_stack = <<>>
    THEN [stack |-> self_stack, value |-> Undefined]
    ELSE [stack |-> SubSeq(self_stack, 1, Len(self_stack) - 1),
          value |-> self_stack[Len(self_stack)]]

\* Avm2::pop: the operand stack after the call and the value returned
pop(self_stack, depth) ==
    IF Len(self_stack) <= depth
    THEN [stack |-> self_stack, value |-> Undefined]
    ELSE [stack |-> SubSeq(self_stack, 1, Len(self_stack) - 1),
          value |-> self_stack[Len(self_stack)]]

\* Avm2::push_scope
push_scope(self_scope_stack, scope, depth, max) ==
    IF usize_sub(Len(self_scope_stack), depth) > max
    THEN self_scope_stack
    ELSE Append(self_scope_stack, scope)

\* Avm2::pop_scope
pop_scope(self_scope_stack, depth) ==
    IF Len(self_scope_stack) <= depth
    THEN [scope_stack |-> self_scope_stack, value |-> None]
    ELSE [scope_stack |-> SubSeq(self_scope_stack, 1, Len(self_scope_stack) - 1),
          value |-> self_scope_stack[Len(self_scope_stack)]]

\* a panic of the running thread
Panic == [tag |-> "Panic"]

\* Avm2::peek: the outcomes of the call, each the operand stack after it and
\* the value returned. `self.stack.len() - index - 1` is computed in usize: a
\* build without overflow checks wraps, and get finds nothing at the wrapped
\* index; a build with overflow checks panics in the subtraction.
peek(self_stack, index) ==
    LET wrapped == usize_sub(usize_sub(Len(self_stack), index), 1)
        found == get(self_stack, wrapped)
        value == IF found = NoValue THEN Undefined ELSE found
        overflows == Len(self_stack) - index - 1 < 0
    IN  {[stack |-> self_stack, value |-> value]}
          \cup (IF overflows THEN {[stack |-> self_stack, value |-> Panic]} ELSE {})

\* the loop of pop_args: args.iter_mut().rev() fills the slots i, i-1, .., 1
RECURSIVE pop_args_loop(_, _, _, _)
pop_args_loop(self_stack, args, i, depth) ==
    IF i = 0
    THEN [stack |-> self_stack, args |-> args]
    ELSE LET r == pop(self_stack, depth)
         IN  pop_args_loop(r.stack, [args EXCEPT ![i] = r.value], i - 1, depth)

\* pop_args that fills the array front to back
pop_args_forward(self_stack, arg_count, depth) ==
    LET r == pop_args_loop(self_stack, [k \in 1..arg_count |-> Undefined],
                           arg_count, depth)
    IN  [stack |-> r.stack,
         args |-> [k \in 1..arg_count |-> r.args[arg_count + 1 - k]]]

\* pop_args that returns an array of the values above the base only
pop_args_available(self_stack, arg_count, depth) ==
    LET above == IF Len(self_stack) > depth THEN Len(self_stack) - depth ELSE 0
        count == IF above < arg_count THEN above ELSE arg_count
    IN  pop_args_loop(self_stack, [k \in 1..count |-> Undefined], count, depth)

\* Avm2::pop_args: the operand stack after the call and the array returned
pop_args(self_stack, arg_count, depth) ==
    pop_args_loop(self_stack, [k \in 1..arg_count |-> Undefined], arg_count, depth)

\* Activation: its base indices into the two stacks are their lengths at
\* entry, its limits those of the method body. entry_stack and
\* entry_scope_stack record the stacks at entry.
Activation(max_stack_size, max_scope_size, result_arity) ==
    [stack_depth |-> Len(stack),
     scope_depth |-> Len(scope_stack),
     max_stack_size |-> max_stack_size,
     max_scope_size |-> max_scope_size,
     result_arity |-> result_arity,
     entry_stack |-> stack,
     entry_scope_stack |-> scope_stack]

CurrentFrame == frames[Len(frames)]

\* A re-entry from the host (broadcast_event, dispatch_event,
\* run_script_initializer, run_stack_frame_for_callable): a fresh activation
\* that leaves no result on the operand stack.
EnterActivation(max_stack_size, max_scope_size) ==
    /\ Len(frames) < MaxFrames
    /\ frames' = Append(frames, Activation(max_stack_size, max_scope_size, 0))
    /\ last' = [op |-> "enter", arg |-> None, ret |-> None]
    /\ UNCHANGED <<stack, scope_stack>>

\* A call of a bytecode method: the caller pops the receiver, the callee runs
\* in a new activation and its result is pushed by the caller on return.
CallMethod(max_stack_size, max_scope_size) ==
    /\ frames # <<>>
    /\ Len(frames) < MaxFrames
    /\ LET r == pop(stack, CurrentFrame.stack_depth) IN
         /\ stack' = r.stack
         /\ frames' = Append(frames,
                [Activation(max_stack_size, max_scope_size, 1) EXCEPT
                    !.stack_depth = Len(r.stack), !.entry_stack = r.stack])
         /\ last' = [op |-> "call", arg |-> None, ret |-> r.value]
    /\ UNCHANGED scope_stack

\* Activation::push_stack
Push(value) ==
    /\ frames # <<>>
    /\ stack' = push(stack, value, CurrentFrame.stack_depth, CurrentFrame.max_stack_size)
    /\ last' = [op |-> "push", arg |-> value,
                ret |-> IF Len(stack') = Len(stack) THEN "overflow" ELSE "stored"]
    /\ UNCHANGED <<scope_stack, frames>>

\* Activation::pop_stack
Pop ==
    /\ frames # <<>>
    /\ LET r == pop(stack, CurrentFrame.stack_depth) IN
         /\ stack' = r.stack
         /\ last' = [op |-> "pop", arg |-> None, ret |-> r.value]
    /\ UNCHANGED <<scope_stack, frames>>

\* Activation::push_scope
PushScope ==
    /\ frames # <<>>
    /\ scope_stack' = push_scope(scope_stack, TheScope, CurrentFrame.scope_depth,
                                 CurrentFrame.max_scope_size)
    /\ last' = [op |-> "push_scope", arg |-> TheScope,
                ret |-> IF Len(scope_stack') = Len(scope_stack)
                        THEN "overflow" ELSE "stored"]
    /\ UNCHANGED <<stack, frames>>

\* Activation::pop_scope
PopScope ==
    /\ frames # <<>>
    /\ LET r == pop_scope(scope_stack, CurrentFrame.scope_depth) IN
         /\ scope_stack' = r.scope_stack
         /\ last' = [op |-> "pop_scope", arg |-> None, ret |-> r.value]
    /\ UNCHANGED <<stack, frames>>

\* Activation::peek_stack and the opcodes that read below the top
Peek(index) ==
    /\ frames # <<>>
    /\ \E r \in peek(stack, index) :
         /\ stack' = r.stack
         /\ last' = [op |-> "peek", arg |-> index, ret |-> r.value]
    /\ UNCHANGED <<scope_stack, frames>>

\* Activation::pop_stack_args
PopArgs(arg_count) ==
    /\ frames # <<>>
    /\ LET r == pop_args(stack, arg_count, CurrentFrame.stack_depth) IN
         /\ stack' = r.stack
         /\ last' = [op |-> "pop_args", arg |-> arg_count, ret |-> r.args]
    /\ UNCHANGED <<scope_stack, frames>>

\* no step follows a panic
Running == last.op = "peek" => last.ret # Panic

\* The return of the innermost activation: both stacks are cut back to its
\* base indices, and the caller of a method pushes the result. ret is the
\* number of operand-stack entries cut.
ReturnActivation(result) ==
    /\ frames # <<>>
    /\ LET frame == CurrentFrame
           callers == SubSeq(frames, 1, Len(frames) - 1)
           cleared == truncate(stack, frame.stack_depth)
       IN  /\ frames' = callers
           /\ stack' = IF frame.result_arity = 1
                        THEN push(cleared, result, callers[Len(callers)].stack_depth,
                                  callers[Len(callers)].max_stack_size)
                        ELSE cleared
           /\ scope_stack' = truncate(scope_stack, frame.scope_depth)
           /\ last' = [op |-> "return",
                       arg |-> IF frame.result_arity = 1 THEN result ELSE NoValue,
                       ret |-> Len(stack) - Len(cleared)]

InitStack ==
    /\ classes = ClassTable(FALSE)
    /\ verify = [class |-> None, superclass |-> None, result |-> None]
    /\ InitAvm2

NextStack ==
    \/ EnterActivation(MaxStackSize, MaxScopeSize) /\ UNCHANGED <<verify_vars, host_vars>>
    \/ CallMethod(MaxStackSize, MaxScopeSize) /\ UNCHANGED <<verify_vars, host_vars>>
    \/ \E v \in ValueInputs : Push(v) /\ UNCHANGED <<verify_vars, host_vars>>
    \/ Pop /\ UNCHANGED <<verify_vars, host_vars>>
    \/ PushScope /\ UNCHANGED <<verify_vars, host_vars>>
    \/ PopScope /\ UNCHANGED <<verify_vars, host_vars>>
    \/ \E v \in {Integer(1), PrimitiveObject(Integer(1))} :
         ReturnActivation(v) /\ UNCHANGED <<verify_vars, host_vars>>

SpecStack == InitStack /\ [][NextStack]_vars

\* The reads of the operand stack that take an index or a count: peek and
\* pop_args, in activations entered from the host.
NextArgs ==
    \/ Running /\ EnterActivation(MaxStackSize, MaxScopeSize) /\ UNCHANGED <<verify_vars, host_vars>>
    \/ \E v \in ValueInputs : Running /\ Push(v) /\ UNCHANGED <<verify_vars, host_vars>>
    \/ \E index \in 0..MaxPeekIndex : Running /\ Peek(index) /\ UNCHANGED <<verify_vars, host_vars>>
    \/ \E arg_count \in 0..MaxArgs :
         Running /\ PopArgs(arg_count) /\ UNCHANGED <<verify_vars, host_vars>>
    \/ Running /\ ReturnActivation(Undefined) /\ UNCHANGED <<verify_vars, host_vars>>

SpecArgs == InitStack /\ [][NextArgs]_vars

-----------------------------------------------------------------------------
(* C7 *)

\* C7 as claimed: in every activation the number of entries above its base
\* never exceeds max, on the operand stack and on the scope stack.
C7_AsClaimed ==
    frames # <<>> =>
        /\ Len(stack) - CurrentFrame.stack_depth <= CurrentFrame.max_stack_size
        /\ Len(scope_stack) - CurrentFrame.scope_depth <= CurrentFrame.max_scope_size

-----------------------------------------------------------------------------
(* C8 *)

\* neither stack is shorter than the base of any activation in progress, and
\* the entries below each base are those present when the activation began
C8_BelowBaseKept ==
    \A k \in 1..Len(frames) :
        /\ Len(stack) >= frames[k].stack_depth
        /\ SubSeq(stack, 1, frames[k].stack_depth) = frames[k].entry_stack
        /\ Len(scope_stack) >= frames[k].scope_depth
        /\ SubSeq(scope_stack, 1, frames[k].scope_depth) = frames[k].entry_scope_stack

\* a pop on a stack no longer than depth returns undefined (None for
\* pop_scope) and changes nothing
C8_UnderflowStep ==
    /\ (last'.op = "pop" /\ Len(stack) <= CurrentFrame.stack_depth)
         => (stack' = stack /\ last'.ret = Undefined)
    /\ (last'.op = "pop_scope" /\ Len(scope_stack) <= CurrentFrame.scope_depth)
         => (scope_stack' = scope_stack /\ last'.ret = None)

\* C8: pop (pop_scope) at or below the base returns undefined (None) and
\* leaves the stack unchanged, so that no entry below the base of an
\* activation is removed or altered and the length never drops below the base.
C8_NoUnderflow == [](C8_BelowBaseKept) /\ [][C8_UnderflowStep]_vars

\* a nested activation has popped at its base, above entries of its caller
C8_Witness ==
    /\ Len(frames) >= 2
    /\ last.op = "pop"
    /\ last.ret = Undefined
    /\ CurrentFrame.stack_depth > 0
    /\ Len(stack) = CurrentFrame.stack_depth

-----------------------------------------------------------------------------
(* C9 *)

\* at the return of an activation the operand stack is as long as at its
\* entry plus its result arity, with the entries of the outer frames as they
\* were, and the scope stack is as long as at its entry
C9_ReturnStep ==
    last'.op = "return" =>
        /\ Len(stack') = CurrentFrame.stack_depth + CurrentFrame.result_arity
        /\ SubSeq(stack', 1, CurrentFrame.stack_depth) = CurrentFrame.entry_stack
        /\ Len(scope_stack') = CurrentFrame.scope_depth

-----------------------------------------------------------------------------
(* C10 *)

IsPrimitiveBox(value) == value.tag = "Object" /\ value.kind = "PrimitiveObject"

\* C10: no primitive-box object is on the operand stack, and a push that
\* stores stores the underlying primitive of a primitive-box object and every
\* other value as it is.
C10_NoBoxOnStack ==
    /\ \A i \in 1..Len(stack) : ~IsPrimitiveBox(stack[i])
    /\ (last.op = "push" /\ last.ret = "stored")
         => stack[Len(stack)] =
               IF IsPrimitiveBox(last.arg) THEN last.arg.primitive ELSE last.arg

\* a primitive-box object was pushed and its primitive is on top
C10_Witness ==
    /\ last.op = "push"
    /\ last.ret = "stored"
    /\ IsPrimitiveBox(last.arg)
    /\ stack[Len(stack)] = Integer(1)

-----------------------------------------------------------------------------
(* C11 *)

\* C11 as claimed: peek(index) leaves the operand stack unchanged and returns
\* the index-th value counted from the top; when index is not smaller than
\* the stack length it returns undefined instead of failing.
C11_PeekStep ==
    last'.op = "peek" =>
        /\ stack' = stack
        /\ last'.ret = IF last'.arg < Len(stack)
                       THEN stack[Len(stack) - last'.arg]
                       ELSE Undefined

C11_AsClaimed == [][C11_PeekStep]_vars

-----------------------------------------------------------------------------
(* C12 *)

\* the top n entries of a stack, in push order
TopEntries(s, n) == SubSeq(s, Len(s) - n + 1, Len(s))

\* C12 as claimed: pop_args(n, depth) removes the top n values and returns
\* them as an array of length n in push order.
C12_AsClaimedStep ==
    last'.op = "pop_args" =>
        /\ Len(stack') = Len(stack) - last'.arg
        /\ Len(last'.ret) = last'.arg
        /\ last'.ret = TopEntries(stack, last'.arg)

C12_AsClaimed == [][C12_AsClaimedStep]_vars

\* the array has length n in every case; when at least n values lie above
\* the base of the activation, the top n are removed, nothing else changes,
\* and the array holds them in push order
C12_PopArgsStep ==
    last'.op = "pop_args" =>
        /\ Len(last'.ret) = last'.arg
        /\ Len(stack) - CurrentFrame.stack_depth >= last'.arg =>
              /\ stack' = SubSeq(stack, 1, Len(stack) - last'.arg)
              /\ last'.ret = TopEntries(stack, last'.arg)

\* C12: pop_args(n, depth) returns an array of length exactly n; when at
\* least n values lie above the base it removes the top n values, the value
\* pushed first at index 0 and the former stack top at index n-1.
C12_PopArgs == [][C12_PopArgsStep]_vars

\* two different values were popped as the arguments of a call
C12_Witness ==
    /\ last.op = "pop_args"
    /\ last.arg = 2
    /\ last.ret = <<Integer(1), ScriptObject>>
    /\ Len(stack) = CurrentFrame.stack_depth

-----------------------------------------------------------------------------
(* Broadcast list: core/src/avm2.rs *)

BROADCAST_WHITELIST == {"enterFrame", "exitFrame", "frameConstructed", "render"}

\* the event names of the model: two broadcast events and one other event
EventNames == {"enterFrame", "render", "click"}

\* the classes passed as on_type
DisplayObject == "DisplayObject"

EventDispatcher == "EventDispatcher"

\* the objects that register: the odd ones are display objects, every one is
\* an event dispatcher
Listener(id) ==
    [tag |-> "Object", kind |-> IF id % 2 = 1 THEN DisplayObject ELSE EventDispatcher,
     id |-> id]

Listeners == { Listener(id) : id \in 1..MaxListeners }

\* the registrations of the model: every object under enterFrame and under
\* click, the first object under render as well
RegisterInputs ==
    (Listeners \X {"enterFrame", "click"}) \cup {<<Listener(1), "render">>}

\* TObject::is_of_type
is_of_type(object, on_type) ==
    on_type = EventDispatcher \/ object.kind = on_type

\* an event object and Event::event_type
EventObject(event_type) == [tag |-> "Object", kind |-> "Event", event_type |-> event_type]

\* Object::ptr_eq: objects are the same by identity
ptr_eq(a, b) == a.id = b.id

\* HashMap::entry(key).or_default(): the map with an empty bucket for key if
\* it has none
entry_or_default(map, key) ==
    IF key \in DOMAIN map THEN map
    ELSE [k \in DOMAIN map \cup {key} |-> IF k = key THEN <<>> ELSE map[k]]

\* register_broadcast_listener that takes every event name
register_any_name(list, object, event_name) ==
    LET with_bucket == entry_or_default(list, event_name)
        bucket == with_bucket[event_name]
    IN  IF \E x \in 1..Len(bucket) : ptr_eq(bucket[x], object)
        THEN with_bucket
        ELSE [with_bucket EXCEPT ![event_name] = Append(bucket, object)]

\* register_broadcast_listener that does not look for the object in the bucket
register_again(list, object, event_name) ==
    IF event_name \notin BROADCAST_WHITELIST THEN list
    ELSE LET with_bucket == entry_or_default(list, event_name)
         IN  [with_bucket EXCEPT ![event_name] = Append(@, object)]

\* Avm2::register_broadcast_listener: the broadcast list after the call
register_broadcast_listener(list, object, event_name) ==
    IF event_name \notin BROADCAST_WHITELIST
    THEN list
    ELSE LET with_bucket == entry_or_default(list, event_name)
             bucket == with_bucket[event_name]
         IN  IF \E x \in 1..Len(bucket) : ptr_eq(bucket[x], object)
             THEN with_bucket
             ELSE [with_bucket EXCEPT ![event_name] = Append(bucket, object)]

\* the start of broadcast_event, lines 271-286, for every event name
broadcast_event_entry_any_name(list, event_name) ==
    LET with_bucket == entry_or_default(list, event_name)
    IN  [list |-> with_bucket, proceed |-> TRUE,
         el_length |-> Len(with_bucket[event_name])]

\* Avm2::broadcast_event, lines 271-286: the whitelist test and the length
\* read before the loop
broadcast_event_entry(list, event_name) ==
    IF event_name \notin BROADCAST_WHITELIST
    THEN [list |-> list, proceed |-> FALSE, el_length |-> 0]
    ELSE LET with_bucket == entry_or_default(list, event_name)
         IN  [list |-> with_bucket, proceed |-> TRUE,
              el_length |-> Len(with_bucket[event_name])]

\* the loop with the length of the bucket read again at each iteration
RECURSIVE broadcast_event_loop_reread(_, _, _, _, _)
broadcast_event_loop_reread(list, event_name, on_type, i, el_length) ==
    IF i >= Len(list[event_name])
    THEN [finished |-> TRUE, i |-> i]
    ELSE LET object == get(list[event_name], i)
         IN  IF object # NoValue /\ is_of_type(object, on_type)
             THEN [finished |-> FALSE, i |-> i]
             ELSE broadcast_event_loop_reread(list, event_name, on_type, i + 1,
                                              el_length)

\* the loop without the is_of_type filter
RECURSIVE broadcast_event_loop_no_filter(_, _, _, _, _)
broadcast_event_loop_no_filter(list, event_name, on_type, i, el_length) ==
    IF i >= el_length
    THEN [finished |-> TRUE, i |-> i]
    ELSE LET object == get(list[event_name], i)
         IN  IF object # NoValue
             THEN [finished |-> FALSE, i |-> i]
             ELSE broadcast_event_loop_no_filter(list, event_name, on_type, i + 1,
                                                 el_length)

\* Avm2::broadcast_event, lines 288-304: the loop from index i up to the next
\* dispatch. It ends at el_length, the length read before the loop; the
\* object at i is read from the list as it is now.
RECURSIVE broadcast_event_loop(_, _, _, _, _)
broadcast_event_loop(list, event_name, on_type, i, el_length) ==
    IF i >= el_length
    THEN [finished |-> TRUE, i |-> i]
    ELSE LET object == get(list[event_name], i)
         IN  IF object # NoValue /\ is_of_type(object, on_type)
             THEN [finished |-> FALSE, i |-> i]
             ELSE broadcast_event_loop(list, event_name, on_type, i + 1, el_length)

\* the call b of broadcast_event run from index i: up to the dispatch to the
\* next listener, or to its return of Ok
deliver_from(b, list, i) ==
    LET next == broadcast_event_loop(list, b.event_name, b.on_type, i, b.el_length)
    IN  IF next.finished
        THEN [b EXCEPT !.state = "done", !.result = "Ok", !.i = next.i]
        ELSE [b EXCEPT !.state = "handler", !.i = next.i,
                       !.delivered = Append(@, get(list[b.event_name], next.i))]

\* Avm2::register_broadcast_listener, called by the host or by a handler of
\* the broadcast in progress
RegisterBroadcastListener(object, event_name) ==
    /\ broadcast_list' = register_broadcast_listener(broadcast_list, object, event_name)
    /\ bcast' = IF /\ bcast.state = "handler"
                   /\ bcast.event_name = event_name
                   /\ broadcast_list' # broadcast_list
                THEN [bcast EXCEPT !.late = Append(@, object)]
                ELSE bcast
    /\ bop' = [op |-> "register", object |-> object, event_name |-> event_name]

\* Avm2::broadcast_event, called by the host: from its start to the dispatch
\* to the first listener, or to its return
BroadcastEvent(event, on_type) ==
    /\ bcast.state # "handler"
    /\ LET event_name == event.event_type
           entry == broadcast_event_entry(broadcast_list, event_name)
           call == [IdleBroadcast EXCEPT
                       !.event_name = event_name, !.on_type = on_type,
                       !.el_length = entry.el_length,
                       !.start_bucket = IF entry.proceed
                                        THEN entry.list[event_name] ELSE <<>>,
                       !.prev_late = IF bcast.event_name = event_name
                                     THEN bcast.late ELSE <<>>]
       IN  /\ broadcast_list' = entry.list
           /\ bcast' = IF entry.proceed
                        THEN deliver_from(call, entry.list, 0)
                        ELSE [call EXCEPT !.state = "done", !.result = "Ok"]
           /\ bop' = [op |-> "broadcast", object |-> event, event_name |-> event_name]

\* the return of dispatch_event with the error kept until the loop has ended
HandlerReturn_error_at_end(outcome) ==
    /\ bcast.state = "handler"
    /\ LET next == deliver_from(bcast, broadcast_list, bcast.i + 1)
       IN  bcast' = IF outcome = "Err" \/ bcast.result = "Err"
                    THEN [next EXCEPT !.result = "Err"]
                    ELSE next
    /\ bop' = [op |-> "dispatched", object |-> bcast.delivered[Len(bcast.delivered)],
                event_name |-> bcast.event_name]
    /\ UNCHANGED broadcast_list

\* Avm2::dispatch_event returns to the loop: an error ends broadcast_event,
\* otherwise the loop goes on with the next index
HandlerReturn(outcome) ==
    /\ bcast.state = "handler"
    /\ bcast' = IF outcome = "Err"
                THEN [bcast EXCEPT !.state = "done", !.result = "Err"]
                ELSE deliver_from(bcast, broadcast_list, bcast.i + 1)
    /\ bop' = [op |-> "dispatched", object |-> bcast.delivered[Len(bcast.delivered)],
                event_name |-> bcast.event_name]
    /\ UNCHANGED broadcast_list

NextBroadcast ==
    \/ \E input \in RegisterInputs :
         RegisterBroadcastListener(input[1], input[2])
           /\ UNCHANGED <<verify_vars, stack_vars, abc, lib_vars>>
    \/ \E event_name \in EventNames, on_type \in {DisplayObject, EventDispatcher} :
         BroadcastEvent(EventObject(event_name), on_type)
           /\ UNCHANGED <<verify_vars, stack_vars, abc, lib_vars>>
    \/ \E outcome \in {"Ok", "Err"} :
         HandlerReturn(outcome) /\ UNCHANGED <<verify_vars, stack_vars, abc, lib_vars>>

SpecBroadcast == InitStack /\ [][NextBroadcast]_vars

\* the bucket of an event name, empty when the list has none
Bucket(event_name) ==
    IF event_name \in DOMAIN broadcast_list THEN broadcast_list[event_name] ELSE <<>>

\* the objects of a sequence
Range(seq) == { seq[x] : x \in 1..Len(seq) }

IsPrefix(a, b) == Len(a) <= Len(b) /\ a = SubSeq(b, 1, Len(a))

\* the listeners of a bucket that are of the type, in the order of the bucket
OfType(bucket, on_type) == SelectSeq(bucket, LAMBDA o : is_of_type(o, on_type))

\* a broadcast of a whitelist event has been started
Broadcasting == bcast.state # "idle" /\ bcast.event_name \in BROADCAST_WHITELIST

-----------------------------------------------------------------------------
(* C13 *)

C13_RegisterStep ==
    (bop'.op = "register" /\ bop'.event_name \notin BROADCAST_WHITELIST)
        => broadcast_list' = broadcast_list

\* C13: register_broadcast_listener with an event name outside the
\* whitelist leaves the broadcast list unchanged: no listener is added, and
\* the list never has a bucket for such a name.
C13_OutsideWhitelist ==
    [](DOMAIN broadcast_list \subseteq BROADCAST_WHITELIST) /\ [][C13_RegisterStep]_vars

\* a registration under click was made on a list that holds listeners
C13_Witness ==
    /\ bop.op = "register"
    /\ bop.event_name = "click"
    /\ Bucket("enterFrame") # <<>>
    /\ "click" \notin DOMAIN broadcast_list

-----------------------------------------------------------------------------
(* C14 *)

C14_NoDuplicates ==
    \A name \in DOMAIN broadcast_list :
        \A x, y \in 1..Len(broadcast_list[name]) :
            ptr_eq(broadcast_list[name][x], broadcast_list[name][y]) => x = y

\* a registration under a whitelist name changes the bucket of that name
\* only: nothing when the object is in it, else the object is appended
C14_RegisterStep ==
    (bop'.op = "register" /\ bop'.event_name \in BROADCAST_WHITELIST) =>
        LET name == bop'.event_name
            bucket == Bucket(name)
            present == \E x \in 1..Len(bucket) : ptr_eq(bucket[x], bop'.object)
        IN  /\ present => broadcast_list' = broadcast_list
            /\ ~present => broadcast_list'[name] = Append(bucket, bop'.object)
            /\ \A other \in DOMAIN broadcast_list \ {name} :
                    broadcast_list'[other] = broadcast_list[other]

\* C14: no bucket of the broadcast list holds the same object twice;
\* registering an object that is in the bucket of the event name changes
\* nothing, and an object in the bucket of one name is still added to the
\* bucket of another.
C14_RegisteredOnce == [](C14_NoDuplicates) /\ [][C14_RegisterStep]_vars

\* the first object is registered under two names and was registered again
\* under render after a render broadcast had been dispatched to it
C14_Witness ==
    /\ bop = [op |-> "register", object |-> Listener(1), event_name |-> "render"]
    /\ bcast.state = "done"
    /\ bcast.event_name = "render"
    /\ bcast.delivered = <<Listener(1)>>
    /\ Bucket("render") = <<Listener(1)>>
    /\ Listener(1) \in Range(Bucket("enterFrame"))

-----------------------------------------------------------------------------
(* C15 *)

C15_BroadcastStep ==
    (bop'.op = "broadcast" /\ bop'.event_name \notin BROADCAST_WHITELIST) =>
        /\ broadcast_list' = broadcast_list
        /\ bcast'.state = "done"
        /\ bcast'.result = "Ok"
        /\ bcast'.delivered = <<>>

\* C15: broadcast_event with an event whose type is not in the whitelist
\* dispatches to no listener, leaves the broadcast list unchanged and
\* returns Ok.
C15_NotBroadcast == [][C15_BroadcastStep]_vars

\* a click event was broadcast while listeners were registered
C15_Witness ==
    /\ bop.op = "broadcast"
    /\ bop.event_name = "click"
    /\ bcast.result = "Ok"
    /\ Len(Bucket("enterFrame")) >= 2

-----------------------------------------------------------------------------
(* C16 *)

\* C16: broadcast_event dispatches to the listeners that were in the bucket of
\* the event name when the call began and are of the type, in the order of
\* their registration and each once, to all of them when it returns Ok, and to
\* those up to the listener whose dispatch failed when it returns an error;
\* it dispatches to no other object.
C16_DeliveredInOrder ==
    Broadcasting =>
        /\ IsPrefix(bcast.start_bucket, Bucket(bcast.event_name))
        /\ Len(bcast.start_bucket) = bcast.el_length
        /\ IsPrefix(bcast.delivered, OfType(bcast.start_bucket, bcast.on_type))
        /\ \A x, y \in 1..Len(bcast.delivered) :
              ptr_eq(bcast.delivered[x], bcast.delivered[y]) => x = y
        /\ bcast.result = "Ok" =>
              bcast.delivered = OfType(bcast.start_bucket, bcast.on_type)
        /\ bcast.result = "Err" => bcast.delivered # <<>>

\* an enterFrame broadcast to the display objects has returned Ok: of the
\* listeners 3, 2, 1, registered in this order, it reached 3 and 1, and the
\* first object is registered under render as well
C16_Witness ==
    /\ bcast.state = "done"
    /\ bcast.result = "Ok"
    /\ bcast.event_name = "enterFrame"
    /\ bcast.on_type = DisplayObject
    /\ bcast.start_bucket = <<Listener(3), Listener(2), Listener(1)>>
    /\ bcast.delivered = <<Listener(3), Listener(1)>>
    /\ Bucket("render") = <<Listener(1)>>

-----------------------------------------------------------------------------
(* C17 *)

\* a listener registered during the call has not received the event of the
\* call; the call has run its whole loop and reached every listener of the
\* type that was in the bucket at its start, unless a dispatch failed
C17_InFlight ==
    Broadcasting =>
        /\ Range(bcast.late) \cap Range(bcast.delivered) = {}
        /\ bcast.result = "Ok" =>
              /\ bcast.i = bcast.el_length
              /\ Range(bcast.delivered) =
                    { o \in Range(bcast.start_bucket) : is_of_type(o, bcast.on_type) }
        /\ bcast.result = "Err" => bcast.i < bcast.el_length

\* the next broadcast of the event starts from a bucket that holds the
\* listeners of the bucket at the start of this one, followed by those
\* registered during this one, in the order of their registration
C17_NextBroadcastStep ==
    (bcast.state = "done" /\ bcast' # bcast
        /\ bcast.event_name \in BROADCAST_WHITELIST
        /\ bcast'.event_name = bcast.event_name) =>
        IsPrefix(bcast.start_bucket \o bcast.late, bcast'.start_bucket)

\* C17: a listener registered by a handler while a broadcast of the event is
\* in flight does not receive that event, the registration does not make the
\* broadcast fail, and the next broadcast of the event reaches the old
\* listeners and then the new one, in registration order.
C17_LateListener == [](C17_InFlight) /\ [][C17_NextBroadcastStep]_vars

\* listener 3 was registered during a broadcast to listeners 1 and 2, and
\* the broadcast after it has reached 1, 2 and 3
C17_Witness ==
    /\ bcast.state = "done"
    /\ bcast.result = "Ok"
    /\ bcast.prev_late = <<Listener(3)>>
    /\ bcast.start_bucket = <<Listener(1), Listener(2), Listener(3)>>
    /\ bcast.delivered = <<Listener(1), Listener(2), Listener(3)>>

-----------------------------------------------------------------------------
(* ABC loading: core/src/avm2.rs, do_abc *)

LAZY_INITIALIZE == "LAZY_INITIALIZE"

\* a DoAbc tag: data stands for the bytes, valid or corrupt, and the number
\* of scripts a valid file holds
DoAbc(valid, num_scripts, flags) ==
    [data |-> [valid |-> valid, num_scripts |-> num_scripts], flags |-> flags]

\* Reader::read: the decoded file, or an error
read(data) ==
    IF data.valid THEN [tag |-> "Ok", scripts_len |-> data.num_scripts]
    ELSE Err("read out of bounds")

\* error::verify_error: the VerifyError object with the message and code
verify_error(message, code) ==
    [class |-> "VerifyError", message |-> message, code |-> code]

\* Error::AvmError: an error that ActionScript code can catch
AvmError(error_object) == [kind |-> "AvmError", object |-> error_object]

\* an error of TranslationUnit::load_script or Script::globals
RustError(what, i) == [kind |-> "RustError", what |-> what, index |-> i]

\* 0..n as a sequence of indices, ascending
range(n) == [k \in 1..n |-> k - 1]

\* the indices taken front to back
rev_forward(seq) == seq

\* (0..n).rev()
rev(seq) == [k \in 1..Len(seq) |-> seq[Len(seq) + 1 - k]]

\* TranslationUnit::from_abc: no script is loaded; loaded and materialized
\* record the calls that registered a script and that forced its globals
from_abc(scripts_len) ==
    [scripts |-> [i \in 0..(scripts_len - 1) |-> FALSE],
     loaded |-> <<>>, materialized |-> <<>>]

\* TranslationUnit::load_script: registers script i, or fails
load_script(tunit, i, load_fails) ==
    IF i \in load_fails
    THEN [tunit |-> tunit, result |-> Err(RustError("load_script", i))]
    ELSE [tunit |-> [tunit EXCEPT !.scripts[i] = TRUE, !.loaded = Append(@, i)],
          result |-> Ok]

\* the script of index i
Script(i) == [tag |-> "Script", index |-> i]

\* TranslationUnit::get_script: the script i if it is registered
get_script(tunit, i) == IF tunit.scripts[i] THEN Script(i) ELSE NoValue

\* Script::globals: materializes the globals of the script, or fails
globals(tunit, script, globals_fail) ==
    IF script.index \in globals_fail
    THEN [tunit |-> tunit, result |-> Err(RustError("globals", script.index))]
    ELSE [tunit |-> [tunit EXCEPT !.materialized = Append(@, script.index)],
          result |-> Ok]

\* do_abc, lines 342-344: load_script for the indices of order from position
\* k on, up to the first failure
RECURSIVE load_scripts(_, _, _, _)
load_scripts(tunit, order, k, load_fails) ==
    IF k > Len(order)
    THEN [tunit |-> tunit, result |-> Ok]
    ELSE LET r == load_script(tunit, order[k], load_fails)
         IN  IF r.result.tag = "Err" THEN r
             ELSE load_scripts(r.tunit, order, k + 1, load_fails)

\* do_abc, lines 347-351: globals of the registered scripts for the indices
\* of order from position k on, up to the first failure
RECURSIVE force_globals(_, _, _, _)
force_globals(tunit, order, k, globals_fail) ==
    IF k > Len(order)
    THEN [tunit |-> tunit, result |-> Ok]
    ELSE LET script == get_script(tunit, order[k])
             r == IF script # NoValue THEN globals(tunit, script, globals_fail)
                  ELSE [tunit |-> tunit, result |-> Ok]
         IN  IF r.result.tag = "Err" THEN r
             ELSE force_globals(r.tunit, order, k + 1, globals_fail)

CorruptMessage == "Error #1107: The ABC data is corrupt, attempt to read out of bounds."

\* do_abc that takes corrupt data for a file without scripts
do_abc_corrupt_as_empty(tag, load_fails, globals_fail) ==
    LET decoded == read(tag.data)
        num_scripts == IF decoded.tag = "Err" THEN 0 ELSE decoded.scripts_len
        loaded == load_scripts(from_abc(num_scripts), rev(range(num_scripts)), 1,
                               load_fails)
    IN  IF loaded.result.tag = "Err" THEN loaded
        ELSE IF LAZY_INITIALIZE \notin tag.flags
        THEN force_globals(loaded.tunit, range(num_scripts), 1, globals_fail)
        ELSE loaded

\* do_abc that does not look at the flags
do_abc_eager(tag, load_fails, globals_fail) ==
    LET decoded == read(tag.data)
    IN  IF decoded.tag = "Err"
        THEN [tunit |-> from_abc(0),
              result |-> Err(AvmError(verify_error(CorruptMessage, 1107)))]
        ELSE LET num_scripts == decoded.scripts_len
                 loaded == load_scripts(from_abc(num_scripts),
                                        rev(range(num_scripts)), 1, load_fails)
             IN  IF loaded.result.tag = "Err" THEN loaded
                 ELSE force_globals(loaded.tunit, range(num_scripts), 1,
                                    globals_fail)

\* do_abc forcing the globals of the scripts from the last to the first
do_abc_globals_rev(tag, load_fails, globals_fail) ==
    LET decoded == read(tag.data)
    IN  IF decoded.tag = "Err"
        THEN [tunit |-> from_abc(0),
              result |-> Err(AvmError(verify_error(CorruptMessage, 1107)))]
        ELSE LET num_scripts == decoded.scripts_len
                 loaded == load_scripts(from_abc(num_scripts),
                                        rev(range(num_scripts)), 1, load_fails)
             IN  IF loaded.result.tag = "Err" THEN loaded
                 ELSE IF LAZY_INITIALIZE \notin tag.flags
                 THEN force_globals(loaded.tunit, rev(range(num_scripts)), 1,
                                    globals_fail)
                 ELSE loaded

\* do_abc that goes on to the globals after a failed load_script and goes
\* through every script in the globals loop, and returns the first error
do_abc_error_kept(tag, load_fails, globals_fail) ==
    LET decoded == read(tag.data)
    IN  IF decoded.tag = "Err"
        THEN [tunit |-> from_abc(0),
              result |-> Err(AvmError(verify_error(CorruptMessage, 1107)))]
        ELSE LET num_scripts == decoded.scripts_len
                 loaded == load_scripts(from_abc(num_scripts),
                                        rev(range(num_scripts)), 1, load_fails)
                 forced == force_globals(loaded.tunit, range(num_scripts), 1, {})
             IN  IF LAZY_INITIALIZE \in tag.flags THEN loaded
                 ELSE IF loaded.result.tag = "Err"
                 THEN [tunit |-> forced.tunit, result |-> loaded.result]
                 ELSE IF globals_fail = {} THEN forced
                 ELSE [tunit |-> forced.tunit,
                       result |-> force_globals(loaded.tunit, range(num_scripts),
                                                1, globals_fail).result]

\* Avm2::do_abc: the translation unit after the call and the value returned.
\* load_fails and globals_fail are the scripts whose load_script and whose
\* globals fail.
do_abc(tag, load_fails, globals_fail) ==
    LET decoded == read(tag.data)
    IN  IF decoded.tag = "Err"
        THEN [tunit |-> from_abc(0),
              result |-> Err(AvmError(verify_error(CorruptMessage, 1107)))]
        ELSE LET num_scripts == decoded.scripts_len
                 loaded == load_scripts(from_abc(num_scripts),
                                        rev(range(num_scripts)), 1, load_fails)
             IN  IF loaded.result.tag = "Err" THEN loaded
                 ELSE IF LAZY_INITIALIZE \notin tag.flags
                 THEN force_globals(loaded.tunit, range(num_scripts), 1,
                                    globals_fail)
                 ELSE loaded

\* a call of Avm2::do_abc by the host
CallDoAbc(tag, load_fails, globals_fail) ==
    LET r == do_abc(tag, load_fails, globals_fail)
    IN  abc' = [called |-> TRUE, tag |-> tag, load_fails |-> load_fails,
                globals_fail |-> globals_fail, tunit |-> r.tunit,
                result |-> r.result]

\* the DoAbc tags of the model
DoAbcInputs ==
    { DoAbc(valid, IF valid THEN n ELSE 0, flags) :
        valid \in BOOLEAN, n \in 0..MaxScripts,
        flags \in {{}, {LAZY_INITIALIZE}} }

\* the sets of scripts of a file that fail
FailInputs(tag) ==
    { fails \in SUBSET (0..(MaxScripts - 1)) :
        \A i \in fails : i < tag.data.num_scripts }

NextAbc ==
    \E tag \in DoAbcInputs :
        \E load_fails, globals_fail \in FailInputs(tag) :
            CallDoAbc(tag, load_fails, globals_fail)
              /\ UNCHANGED <<verify_vars, stack_vars, broadcast_vars, lib_vars>>

SpecAbc == InitStack /\ [][NextAbc]_vars

-----------------------------------------------------------------------------
(* C18 *)

-----------------------------------------------------------------------------
(* C19 *)

\* C19: do_abc calls load_script for the indices n-1, n-2, .., 0 in this
\* order, each once: all of them when no load_script fails, and those down to
\* the first that fails otherwise.
C19_ReverseOrder ==
    (abc.called /\ abc.tag.data.valid) =>
        LET n == abc.tag.data.num_scripts
            loaded == abc.tunit.loaded
        IN  /\ \A k \in 1..Len(loaded) : loaded[k] = n - k
            /\ abc.load_fails = {} => Len(loaded) = n
            /\ \A i \in abc.load_fails : Len(loaded) <= n - 1 - i

\* three scripts were registered, the last one first
C19_Witness ==
    /\ abc.called
    /\ abc.tunit.loaded = <<2, 1, 0>>
    /\ abc.result = Ok

-----------------------------------------------------------------------------
(* C20 *)

\* C20: without LAZY_INITIALIZE do_abc forces the globals of the scripts in
\* the order 0, 1, .., n-1 (up to the first failure) and only when every
\* script of the file is registered; with LAZY_INITIALIZE it forces none.
C20_GlobalsOrder ==
    (abc.called /\ abc.tag.data.valid) =>
        LET n == abc.tag.data.num_scripts
            materialized == abc.tunit.materialized
        IN  /\ \A k \in 1..Len(materialized) : materialized[k] = k - 1
            /\ materialized # <<>> => Len(abc.tunit.loaded) = n
            /\ LAZY_INITIALIZE \in abc.tag.flags => materialized = <<>>
            /\ (LAZY_INITIALIZE \notin abc.tag.flags /\ abc.result = Ok)
                  => Len(materialized) = n

\* the globals of three scripts were forced, of the first one first
C20_Witness ==
    /\ abc.called
    /\ abc.tag.flags = {}
    /\ abc.tunit.loaded = <<2, 1, 0>>
    /\ abc.tunit.materialized = <<0, 1, 2>>
    /\ abc.result = Ok

-----------------------------------------------------------------------------
(* C21 *)

\* C21 as stated: without LAZY_INITIALIZE the globals of the scripts run in
\* reverse index order, those of the script with the highest index first and
\* those of script 0 last.
C21_AsClaimed ==
    (abc.called /\ abc.tag.data.valid /\ LAZY_INITIALIZE \notin abc.tag.flags) =>
        LET n == abc.tag.data.num_scripts
            materialized == abc.tunit.materialized
        IN  \A k \in 1..Len(materialized) : materialized[k] = n - k

\* C21: a do_abc call without LAZY_INITIALIZE that returns Ok has run the
\* globals of every script in the order opposite to the one the scripts were
\* registered in: the globals of script 0 run first and those of the script
\* with the highest index last.
C21_ForwardOrder ==
    (abc.called /\ abc.tag.data.valid /\ LAZY_INITIALIZE \notin abc.tag.flags
        /\ abc.result = Ok) =>
        LET n == abc.tag.data.num_scripts
            materialized == abc.tunit.materialized
        IN  /\ Len(materialized) = n
            /\ materialized = rev(abc.tunit.loaded)
            /\ n > 0 => (materialized[1] = 0 /\ materialized[n] = n - 1)

\* the globals of two scripts were run at load time
C21_Witness ==
    /\ abc.called
    /\ abc.tag.data.valid
    /\ abc.tag.data.num_scripts = 2
    /\ LAZY_INITIALIZE \notin abc.tag.flags
    /\ abc.result = Ok
    /\ Len(abc.tunit.materialized) = 2

-----------------------------------------------------------------------------
(* Trait loading: core/src/avm2/class.rs, load_traits *)

\* the number of traits of each kind of the class of the ABC file
MaxAbcTraits == 2

\* the number of load_traits calls on one class
MaxLoadCalls == 3

\* the instance traits and the class traits an ABC file may hold
AbcInstanceTraitInputs ==
    { AbcTrait(Trait("foo", public_namespace, "Method", FALSE, FALSE)),
      AbcTrait(Trait("bar", public_namespace, "Method", FALSE, FALSE)),
      BadAbcTrait }

AbcClassTraitInputs ==
    { AbcTrait(Trait("foo", public_namespace, "Getter", FALSE, FALSE)),
      BadAbcTrait }

\* an ABC file with one class, that has no superclass
LoadingUnit(instance_traits, class_traits) ==
    [methods |-> <<"iinit", "cinit">>,
     multinames |-> <<>>,
     instances |-> << AbcInstance("C", 0, None, FALSE, 0, instance_traits) >>,
     classes |-> << AbcClass(1, class_traits) >>]

LoadingUnits ==
    { LoadingUnit(i, c) : i \in SeqsUpTo(AbcInstanceTraitInputs, MaxAbcTraits),
                          c \in SeqsUpTo(AbcClassTraitInputs, MaxAbcTraits) }

\* The class at index 0 of unit is created: by from_abc_index, or by native
\* code with Class::new.
CreateClass(unit, native) ==
    /\ ~loading.created
    /\ loading' =
          [created |-> TRUE,
           unit |-> unit,
           class |-> IF native THEN Class_new("C", None, NativeInit, NativeInit)
                               ELSE from_abc_index(unit, 0, EmptyMap).value,
           calls |-> 0,
           class_index |-> 0,
           result |-> Ok]

\* a call of Class::load_traits(unit, class_index) on the class
CallLoadTraits(class_index) ==
    /\ loading.created
    /\ loading.calls < MaxLoadCalls
    /\ LET r == load_traits(loading.class, loading.unit, class_index)
       IN  loading' = [loading EXCEPT !.class = r.self, !.result = r.result,
                                      !.calls = @ + 1,
                                      !.class_index = class_index]

NextTraits ==
    \/ \E unit \in LoadingUnits, native \in BOOLEAN :
         CreateClass(unit, native)
           /\ UNCHANGED <<verify_vars, stack_vars, broadcast_vars, abc,
                          generic, number, dispatch, more_vars>>
    \/ \E class_index \in 0..1 :
         CallLoadTraits(class_index)
           /\ UNCHANGED <<verify_vars, stack_vars, broadcast_vars, abc,
                          generic, number, dispatch, more_vars>>

SpecTraits == InitStack /\ [][NextTraits]_vars

\* the traits that abc_traits convert to, up to the first that does not
RECURSIVE Converted(_)
Converted(abc_traits) ==
    IF abc_traits = <<>> \/ ~Head(abc_traits).valid THEN <<>>
    ELSE <<Head(abc_traits).trait>> \o Converted(Tail(abc_traits))

-----------------------------------------------------------------------------
(* C22 *)

\* the traits of the class hold each trait of the ABC file at most once, in
\* the order of the file
C22_AtMostOnce ==
    loading.created =>
        /\ IsPrefix(loading.class.instance_traits,
                    Converted(loading.unit.instances[1].traits))
        /\ IsPrefix(loading.class.class_traits,
                    Converted(loading.unit.classes[1].traits))

\* a load_traits call on a class whose traits_loaded flag is set returns Ok
\* and leaves the class as it was
C22_LoadedStep ==
    (loading.created /\ loading.class.traits_loaded
        /\ loading'.calls = loading.calls + 1)
      => (loading'.result = Ok /\ loading'.class = loading.class)

\* C22: load_traits is idempotent. A call on a class whose traits_loaded flag
\* is set, by an earlier load_traits call or by Class::new, returns Ok and
\* changes neither instance_traits nor class_traits; however often
\* load_traits is called, each trait of the ABC file is appended at most
\* once.
C22_Idempotent == [][C22_LoadedStep]_vars /\ []C22_AtMostOnce

\* load_traits was called twice on a class of an ABC file with two instance
\* traits and a class trait, and the class holds them once
C22_Witness ==
    /\ loading.created
    /\ loading.calls = 2
    /\ ~loading.class.is_system
    /\ Len(loading.class.instance_traits) = 2
    /\ Len(loading.class.class_traits) = 1
    /\ loading.result = Ok

-----------------------------------------------------------------------------
(* Type application: core/src/avm2/class.rs, with_type_param *)

\* the number of with_type_param calls
MaxApply == 3

\* QName::new and QName::to_qualified_name
QName(namespace, local_name) == [namespace |-> namespace, local_name |-> local_name]

to_qualified_name(name) ==
    IF name.namespace = "" THEN name.local_name
    ELSE name.namespace \o "::" \o name.local_name

\* A GcCell holding a class: ptr is its place in the heap of class cells.
Ref(ptr) == [ptr |-> ptr]

\* a key made of the name of the class
ClassKey_by_name(heap, class) == heap[class.ptr].name

\* ClassKey: the key of a class is its cell, and two keys are equal when the
\* cells are at the same address (lines 183-195)
ClassKey(heap, class) == class

\* FnvHashMap::insert
insert(map, key, value) ==
    [k \in DOMAIN map \cup {key} |-> IF k = key THEN value ELSE map[k]]

\* Class::add_application
add_application(self, heap, param, cls) ==
    LET key == IF param = NoValue THEN NoValue
               ELSE Some(ClassKey(heap, param.value))
    IN  [self EXCEPT !.applications = insert(@, key, cls)]

\* The class cells made by the builtin setup. Vector is the generic class,
\* Vector$object its application to the absent parameter; two classes of
\* different domains are named Foo; Vector$int is the application to int,
\* when the setup registers it.
VectorCls == Ref(1)
ObjectVectorCls == Ref(2)
Foo1 == Ref(3)
Foo2 == Ref(4)
Sprite == Ref(5)
IntCls == Ref(6)
IntVectorCls == Ref(7)

VectorMethod(of, kind) == [method |-> kind, of |-> of]

BuiltinHeap ==
    << [Class_new(QName("__AS3__.vec", "Vector"), None,
                  VectorMethod("Vector", "iinit"), VectorMethod("Vector", "cinit"))
          EXCEPT !.attributes = {GENERIC}],
       [Class_new(QName("__AS3__.vec", "Vector$object"), None,
                  VectorMethod("Vector$object", "iinit"),
                  VectorMethod("Vector$object", "cinit"))
          EXCEPT !.param = Some(NoValue),
                 !.call_handler = Some(VectorMethod("Vector$object", "call"))],
       Class_new(QName("", "Foo"), None, NativeInit, NativeInit),
       Class_new(QName("", "Foo"), None, NativeInit, NativeInit),
       Class_new(QName("flash.display", "Sprite"), None, NativeInit, NativeInit),
       Class_new(QName("", "int"), None, NativeInit, NativeInit),
       [Class_new(QName("__AS3__.vec", "Vector$int"), None,
                  VectorMethod("Vector$int", "iinit"),
                  VectorMethod("Vector$int", "cinit"))
          EXCEPT !.param = Some(Some(IntCls))] >>

\* SystemClasses::object_vector, context.avm2.classes().object_vector
object_vector == ObjectVectorCls

\* with_type_param that takes the initializers and the call handler of the
\* new class from the generic class
with_type_param_from_this(heap, this, param) ==
    LET this_read == heap[this.ptr]
        key == IF param = NoValue THEN NoValue
               ELSE Some(ClassKey(heap, param.value))
    IN  IF key \in DOMAIN this_read.applications
        THEN [heap |-> heap, ret |-> this_read.applications[key]]
        ELSE IF NoValue \notin DOMAIN this_read.applications
        THEN [heap |-> heap, ret |-> Panic]
        ELSE IF param = NoValue THEN [heap |-> heap, ret |-> Panic]
        ELSE LET name == "Vector.<"
                            \o to_qualified_name(heap[param.value.ptr].name) \o ">"
                 new_class ==
                     [Class_new(QName(this_read.name.namespace, name),
                                inner_class_definition(object_vector),
                                this_read.instance_init, this_read.class_init)
                        EXCEPT !.param = Some(param),
                               !.call_handler = this_read.call_handler]
                 cell == Ref(Len(heap) + 1)
             IN  [heap |-> Append([heap EXCEPT ![this.ptr].applications =
                                      insert(@, key, cell)], new_class),
                  ret |-> cell]

\* Class::with_type_param: the heap of class cells after the call and the
\* cell returned, or a panic. param is an Option of a class cell.
with_type_param(heap, this, param) ==
    LET this_read == heap[this.ptr]
        key == IF param = NoValue THEN NoValue
               ELSE Some(ClassKey(heap, param.value))
    IN  IF key \in DOMAIN this_read.applications
        THEN [heap |-> heap, ret |-> this_read.applications[key]]
        ELSE IF NoValue \notin DOMAIN this_read.applications
        THEN [heap |-> heap, ret |-> Panic]
        ELSE IF param = NoValue THEN [heap |-> heap, ret |-> Panic]
        ELSE LET object_vector_cls == heap[this_read.applications[NoValue].ptr]
                 name == "Vector.<"
                            \o to_qualified_name(heap[param.value.ptr].name) \o ">"
                 new_class ==
                     [Class_new(QName(this_read.name.namespace, name),
                                inner_class_definition(object_vector),
                                object_vector_cls.instance_init,
                                object_vector_cls.class_init)
                        EXCEPT !.param = Some(param),
                               !.call_handler = object_vector_cls.call_handler]
                 cell == Ref(Len(heap) + 1)
             IN  [heap |-> Append([heap EXCEPT ![this.ptr].applications =
                                      insert(@, key, cell)], new_class),
                  ret |-> cell]

\* The builtin setup: the Vector classes are made and the application to
\* the absent parameter is registered, and the one to int when with_int.
LoadVectorClasses(with_int) ==
    /\ ~generic.called
    /\ LET star == [BuiltinHeap EXCEPT
                       ![1] = add_application(@, BuiltinHeap, NoValue, ObjectVectorCls)]
           heap == IF with_int
                   THEN [star EXCEPT
                           ![1] = add_application(@, star, Some(IntCls), IntVectorCls)]
                   ELSE star
       IN  generic' = [called |-> TRUE, heap |-> heap, calls |-> 0,
                       param |-> NoValue, ret |-> NoValue, fresh |-> FALSE,
                       returned |-> EmptyMap]

\* a call of Class::with_type_param(Vector, param); returned keeps, for each
\* parameter, the cell returned by the first call with it, and fresh tells
\* that the call made a class
WithTypeParam(param) ==
    /\ generic.called
    /\ generic.calls < MaxApply
    /\ LET r == with_type_param(generic.heap, VectorCls, param)
       IN  generic' = [generic EXCEPT
               !.heap = r.heap, !.calls = @ + 1, !.param = param, !.ret = r.ret,
               !.fresh = Len(r.heap) > Len(generic.heap),
               !.returned = IF param \in DOMAIN @ THEN @
                            ELSE insert(@, param, r.ret)]

\* the parameters of the model
ParamInputs == {NoValue, Some(Foo1), Some(Foo2), Some(Sprite), Some(IntCls)}

NextGeneric ==
    \/ \E with_int \in BOOLEAN :
         LoadVectorClasses(with_int)
           /\ UNCHANGED <<verify_vars, stack_vars, broadcast_vars, abc,
                          loading, number, dispatch, more_vars>>
    \/ \E param \in ParamInputs :
         WithTypeParam(param)
           /\ UNCHANGED <<verify_vars, stack_vars, broadcast_vars, abc,
                          loading, number, dispatch, more_vars>>

SpecGeneric == InitStack /\ [][NextGeneric]_vars

\* the applications table of Vector
Applications == generic.heap[VectorCls.ptr].applications

-----------------------------------------------------------------------------
(* C23 *)

\* a with_type_param call returns the entry of its parameter when there is
\* one and changes nothing; otherwise it adds one entry, for its parameter,
\* that holds the cell it returns; it replaces no entry
C23_WithTypeParamStep ==
    (generic.called /\ generic'.calls = generic.calls + 1) =>
        LET key == generic'.param
            before == Applications
            after == generic'.heap[VectorCls.ptr].applications
        IN  /\ generic'.ret # Panic
            /\ key \in DOMAIN before =>
                  (generic'.ret = before[key] /\ generic'.heap = generic.heap)
            /\ key \notin DOMAIN before =>
                  /\ DOMAIN after = DOMAIN before \cup {key}
                  /\ after[key] = generic'.ret
                  /\ \A k \in DOMAIN before : before[k] # generic'.ret
            /\ \A k \in DOMAIN before : k \in DOMAIN after /\ after[k] = before[k]

\* every call returns what the first call with the same parameter returned,
\* and calls with different parameters return different cells
C23_SameCell ==
    (generic.called /\ generic.calls > 0) =>
        /\ generic.ret = generic.returned[generic.param]
        /\ \A p, q \in DOMAIN generic.returned :
              p # q => generic.returned[p] # generic.returned[q]

\* C23: with_type_param(Vector, P) is memoized by the identity of P. Calls
\* with the same parameter cell, or with the absent parameter, return the
\* same class and add at most one entry for P to the applications table;
\* different cells as parameters give different classes even when the names
\* of the parameters are equal; with_type_param replaces no entry.
C23_Memoized == [][C23_WithTypeParamStep]_vars /\ []C23_SameCell

\* with_type_param was called with two classes named Foo, with one of them
\* twice, and has made two classes
C23_Witness ==
    /\ generic.called
    /\ generic.calls = 3
    /\ generic.param = Some(Foo1)
    /\ ~generic.fresh
    /\ Some(Foo2) \in DOMAIN generic.returned
    /\ Len(generic.heap) = Len(BuiltinHeap) + 2
    /\ generic.heap[Foo1.ptr].name = generic.heap[Foo2.ptr].name

-----------------------------------------------------------------------------
(* C24 *)

\* C24: the class that with_type_param makes for a parameter P without entry
\* is not generic, is named Vector.<Q> with Q the qualified name of P, has
\* the object vector class as its superclass and P as its type parameter,
\* and has the instance initializer, the class initializer and the call
\* handler of Vector.<*>, the application to the absent parameter.
C24_NewClass ==
    (generic.called /\ generic.fresh) =>
        LET new_class == generic.heap[generic.ret.ptr]
            P == generic.heap[generic.param.value.ptr]
            proto == generic.heap[Applications[NoValue].ptr]
        IN  /\ GENERIC \notin new_class.attributes
            /\ new_class.name.local_name =
                  "Vector.<" \o to_qualified_name(P.name) \o ">"
            /\ generic.param = Some(Sprite) =>
                  new_class.name.local_name = "Vector.<flash.display::Sprite>"
            /\ generic.param = Some(Foo1) =>
                  new_class.name.local_name = "Vector.<Foo>"
            /\ new_class.super_class = ObjectVectorCls
            /\ new_class.param = Some(generic.param)
            /\ new_class.instance_init = proto.instance_init
            /\ new_class.class_init = proto.class_init
            /\ new_class.call_handler = proto.call_handler
            /\ new_class.call_handler # NoValue

\* with_type_param has made the class Vector.<flash.display::Sprite>
C24_Witness ==
    /\ generic.called
    /\ generic.fresh
    /\ generic.param = Some(Sprite)
    /\ generic.ret = Ref(Len(generic.heap))

-----------------------------------------------------------------------------
(* Number formatting: core/src/avm2/globals/number.rs *)

\* the largest magnitude of the integers printed in a radix
MaxNumber == 255

\* the iterations the digit loop of print_with_radix is followed for
MaxDigitLoop == 40

\* An f64: NaN, an infinity, or the finite number m * 10^e. A finite number
\* with e < 0 has m not divisible by 10.
NaN == [kind |-> "NaN"]

Infinity(negative) == [kind |-> "Infinity", negative |-> negative]

Finite(m, e) == [kind |-> "finite", m |-> m, e |-> e]

\* Value::Number
NumberValue(f) == [tag |-> "Number", f |-> f]

\* the prototype object of the Number class
number_proto == [tag |-> "Object", kind |-> "ScriptObject", id |-> "Number.prototype"]

\* i32 as f64
as_f64(i) == Finite(i, 0)

abs(i) == IF i < 0 THEN -i ELSE i

RECURSIVE pow(_, _)
pow(b, k) == IF k = 0 THEN 1 ELSE b * pow(b, k - 1)

\* the number of decimal digits of a natural number
digit_count(a) == Len(ToString(a))

RECURSIVE zeros(_)
zeros(k) == IF k <= 0 THEN "" ELSE "0" \o zeros(k - 1)

\* the decimal digits of a padded with zeros on the left to width characters
pad_left(a, width) == zeros(width - digit_count(a)) \o ToString(a)

\* a / p rounded to the nearest integer, ties to the even one
round_half_even(a, p) ==
    LET q == a \div p
        r == a % p
    IN  IF 2 * r > p \/ (2 * r = p /\ q % 2 = 1) THEN q + 1 ELSE q

\* Finite(m, e) with the trailing zeros of m moved to the exponent
RECURSIVE normalize(_, _)
normalize(m, e) ==
    IF m = 0 THEN Finite(0, 0)
    ELSE IF e < 0 /\ m % 10 = 0 THEN normalize(m \div 10, e + 1)
    ELSE Finite(m, e)

\* str::replace: every match of from, found from the left and without
\* overlap, is replaced by to
RECURSIVE replace(_, _, _)
replace(s, from, to) ==
    IF Len(s) < Len(from) THEN s
    ELSE IF SubSeq(s, 1, Len(from)) = from
    THEN to \o replace(SubSeq(s, Len(from) + 1, Len(s)), from, to)
    ELSE SubSeq(s, 1, 1) \o replace(SubSeq(s, 2, Len(s)), from, to)

\* Iterator::rev of the characters of a string
RECURSIVE rev_chars(_)
rev_chars(s) ==
    IF Len(s) = 0 THEN ""
    ELSE rev_chars(SubSeq(s, 2, Len(s))) \o SubSeq(s, 1, 1)

\* format!("{}", f) of an f64: the shortest decimal that reads back as f,
\* without exponent
display(f) ==
    IF f.kind = "NaN" THEN "NaN"
    ELSE IF f.kind = "Infinity" THEN (IF f.negative THEN "-inf" ELSE "inf")
    ELSE LET n == normalize(f.m, f.e)
             a == abs(n.m)
             sign == IF n.m < 0 THEN "-" ELSE ""
         IN  IF n.e >= 0 THEN sign \o ToString(a) \o (IF a = 0 THEN "" ELSE zeros(n.e))
             ELSE sign \o ToString(a \div pow(10, -n.e)) \o "."
                       \o pad_left(a % pow(10, -n.e), -n.e)

\* format!("{0:.1$}", f, digits): f with digits decimals, rounded to nearest
\* with ties to even
format_fixed(f, digits) ==
    IF f.kind = "NaN" THEN "NaN"
    ELSE IF f.kind = "Infinity" THEN (IF f.negative THEN "-inf" ELSE "inf")
    ELSE LET a == abs(f.m)
             sign == IF f.m < 0 THEN "-" ELSE ""
             point == IF digits > 0 THEN "." ELSE ""
         IN  IF f.e >= 0
             THEN sign \o ToString(a) \o (IF a = 0 THEN "" ELSE zeros(f.e))
                       \o point \o zeros(digits)
             ELSE IF digits >= -f.e
             THEN sign \o ToString(a \div pow(10, -f.e)) \o point
                       \o pad_left(a % pow(10, -f.e), -f.e)
                       \o zeros(digits + f.e)
             ELSE LET q == round_half_even(a, pow(10, -f.e - digits))
                  IN  sign \o ToString(q \div pow(10, digits)) \o point
                           \o (IF digits > 0 THEN pad_left(q % pow(10, digits), digits)
                               ELSE "")

\* format!("{f:.digits$e}"): one digit, the point and digits decimals, e and
\* the decimal exponent, which has a sign only when it is negative
format_exp(f, digits) ==
    IF f.kind = "NaN" THEN "NaN"
    ELSE IF f.kind = "Infinity" THEN (IF f.negative THEN "-inf" ELSE "inf")
    ELSE LET a == abs(f.m)
             sign == IF f.m < 0 THEN "-" ELSE ""
             k == digit_count(a)
             n == digits + 1
             rounded == IF k > n THEN round_half_even(a, pow(10, k - n)) ELSE a
             carry == k > n /\ rounded = pow(10, n)
             mantissa == IF carry THEN "1" \o zeros(n - 1)
                         ELSE IF k > n THEN ToString(rounded)
                         ELSE ToString(a) \o zeros(n - k)
             exponent == IF a = 0 THEN 0
                         ELSE k - 1 + f.e + (IF carry THEN 1 ELSE 0)
         IN  sign \o SubSeq(mantissa, 1, 1)
                  \o (IF digits > 0 THEN "." \o SubSeq(mantissa, 2, n) ELSE "")
                  \o "e" \o ToString(exponent)

\* Value::coerce_to_i32 of an int, a Number within the range of i32 and
\* undefined
coerce_to_i32(value) ==
    IF value.tag = "Integer" THEN value.int
    ELSE IF value.tag = "Number"
    THEN IF value.f.kind # "finite" THEN 0
         ELSE IF value.f.e >= 0 THEN value.f.m * pow(10, value.f.e)
         ELSE IF value.f.m >= 0 THEN value.f.m \div pow(10, -value.f.e)
         ELSE -((-value.f.m) \div pow(10, -value.f.e))
    ELSE 0

\* Value::coerce_to_number of the receiver, a Number or int object
coerce_to_number(this) ==
    LET primitive == as_primitive(this) IN
    IF primitive.tag = "Integer" THEN as_f64(primitive.int) ELSE primitive.f

\* Value::coerce_to_string of a number
coerce_to_string(f) ==
    IF f.kind = "Infinity" THEN (IF f.negative THEN "-Infinity" ELSE "Infinity")
    ELSE display(f)

\* the errors of Number
make_error_1002 == [class |-> "RangeError", code |-> 1002]

make_error_1003(radix) == [class |-> "RangeError", code |-> 1003, radix |-> radix]

make_error_1004(method) == [class |-> "TypeError", code |-> 1004, method |-> method]

\* slice::get(index).unwrap_or(default) on the arguments
arg_or(args, index, default) ==
    IF get(args, index) = NoValue THEN default ELSE get(args, index)

\* to_exponential with the exponent zero kept in the string
to_exponential_keep_zero(this, args) ==
    LET f == coerce_to_number(this)
        digits == coerce_to_i32(arg_or(args, 0, Integer(0)))
    IN  IF digits < 0 \/ digits > 20 THEN Err(make_error_1002)
        ELSE OkWith(replace(replace(format_exp(f, digits), "e", "e+"), "e+-", "e-"))

\* Number.toExponential
to_exponential(this, args) ==
    LET f == coerce_to_number(this)
        digits == coerce_to_i32(arg_or(args, 0, Integer(0)))
    IN  IF digits < 0 \/ digits > 20 THEN Err(make_error_1002)
        ELSE OkWith(replace(replace(replace(format_exp(f, digits),
                                            "e", "e+"), "e+-", "e-"), "e+0", ""))

\* to_fixed with the upper limit of digits left out
to_fixed_no_upper(this, args) ==
    LET f == coerce_to_number(this)
        digits == coerce_to_i32(arg_or(args, 0, Integer(0)))
    IN  IF digits < 0 THEN Err(make_error_1002)
        ELSE OkWith(format_fixed(f, digits))

\* Number.toFixed
to_fixed(this, args) ==
    LET f == coerce_to_number(this)
        digits == coerce_to_i32(arg_or(args, 0, Integer(0)))
    IN  IF digits < 0 \/ digits > 20 THEN Err(make_error_1002)
        ELSE OkWith(format_fixed(f, digits))

\* f64::log10 and f64::floor of the magnitude of a finite number that is not
\* zero
floor_log10(f) == digit_count(abs(f.m)) - 1 + f.e

\* (number * 10^shift).floor() / 10^shift
floor_at(f, shift) ==
    IF f.kind # "finite" THEN f
    ELSE IF f.e + shift >= 0 THEN f
    ELSE LET p == pow(10, -(f.e + shift))
             q == IF f.m >= 0 THEN f.m \div p ELSE -(((-f.m) + p - 1) \div p)
         IN  IF shift >= 0 THEN normalize(q, -shift)
             ELSE Finite(q * pow(10, -shift), 0)

\* f / 10^k for k >= 0
div_pow10(f, k) == IF f.kind # "finite" THEN f ELSE normalize(f.m, f.e - k)

\* print_with_precision
print_with_precision(f, wanted_digits) ==
    LET available_digits ==
            IF f.kind = "finite" /\ f.m # 0 THEN floor_log10(f) ELSE 1
        precision == floor_at(f, wanted_digits - available_digits - 1)
    IN  IF wanted_digits <= available_digits
        THEN display(div_pow10(precision, available_digits))
                \o "e" \o (IF available_digits < 0 THEN "-" ELSE "+")
                \o display(as_f64(abs(available_digits)))
        ELSE display(precision)

\* the digit alphabet of print_with_radix
DIGIT_CHARS == "0123456789abcdefghijklmnopqrstuvwxyz"

\* a digit loop that never ends
Diverged == [tag |-> "Diverged"]

\* The digit loop of print_with_radix (lines 281-297). number is num / den;
\* digits holds the characters pushed so far. The result is the characters
\* pushed when the loop ends, and Diverged when it has not ended after fuel
\* iterations.
RECURSIVE radix_loop(_, _, _, _, _)
radix_loop(num, den, radix, digits, fuel) ==
    IF fuel = 0 THEN Diverged
    ELSE LET digit == (num \div den) % radix
             pushed == digits \o SubSeq(DIGIT_CHARS, digit + 1, digit + 1)
         IN  IF num < den * radix THEN [tag |-> "Done", digits |-> pushed]
             ELSE radix_loop(num, den * radix, radix, pushed, fuel - 1)

\* print_with_radix that collects the digits in the order they are pushed
print_with_radix_no_rev(f, radix) ==
    IF radix = 10 THEN OkWith(coerce_to_string(f))
    ELSE IF f.kind = "NaN" THEN OkWith("NaN")
    ELSE IF f.kind = "Infinity"
    THEN OkWith(IF f.negative THEN "-Infinity" ELSE "Infinity")
    ELSE LET a == abs(f.m)
             looped == IF f.e >= 0 THEN radix_loop(a * pow(10, f.e), 1, radix, "", MaxDigitLoop)
                       ELSE radix_loop(a, pow(10, -f.e), radix, "", MaxDigitLoop)
         IN  IF looped = Diverged THEN Diverged
             ELSE OkWith(IF f.m < 0 THEN looped.digits \o "-" ELSE looped.digits)

\* print_with_radix
print_with_radix(f, radix) ==
    IF radix = 10 THEN OkWith(coerce_to_string(f))
    ELSE IF f.kind = "NaN" THEN OkWith("NaN")
    ELSE IF f.kind = "Infinity"
    THEN OkWith(IF f.negative THEN "-Infinity" ELSE "Infinity")
    ELSE LET a == abs(f.m)
             looped == IF f.e >= 0 THEN radix_loop(a * pow(10, f.e), 1, radix, "", MaxDigitLoop)
                       ELSE radix_loop(a, pow(10, -f.e), radix, "", MaxDigitLoop)
         IN  IF looped = Diverged THEN Diverged
             ELSE OkWith(rev_chars(IF f.m < 0 THEN looped.digits \o "-"
                                   ELSE looped.digits))

\* to_string with 37 as the largest radix
to_string_upto_37(this, args) ==
    IF this = number_proto THEN OkWith("0")
    ELSE IF this.kind # "PrimitiveObject" \/ as_primitive(this).tag \notin {"Integer", "Number"}
    THEN Err(make_error_1004("Number.prototype.toString"))
    ELSE LET f == coerce_to_number(this)
             radix == coerce_to_i32(arg_or(args, 0, Integer(10)))
         IN  IF radix < 2 \/ radix > 37 THEN Err(make_error_1003(radix))
             ELSE print_with_radix(f, radix)

\* Number.prototype.toString
to_string(this, args) ==
    IF this = number_proto THEN OkWith("0")
    ELSE IF this.kind # "PrimitiveObject" \/ as_primitive(this).tag \notin {"Integer", "Number"}
    THEN Err(make_error_1004("Number.prototype.toString"))
    ELSE LET f == coerce_to_number(this)
             radix == coerce_to_i32(arg_or(args, 0, Integer(10)))
         IN  IF radix < 2 \/ radix > 36 THEN Err(make_error_1003(radix))
             ELSE print_with_radix(f, radix)

\* Number.toPrecision
to_precision(this, args) ==
    LET f == coerce_to_number(this)
        wanted_digits == arg_or(args, 0, Integer(0))
    IN  IF wanted_digits = Undefined THEN to_string(this, <<>>)
        ELSE IF coerce_to_i32(wanted_digits) < 1 \/ coerce_to_i32(wanted_digits) > 21
        THEN Err(make_error_1002)
        ELSE OkWith(print_with_precision(f, coerce_to_i32(wanted_digits)))

\* the largest radix and the largest number of digits passed as argument
MaxRadix == 38

MaxDigits == 22

\* a call of a method of Number on the object this with the arguments args
CallNumber(method, this, args) ==
    /\ ~number.called
    /\ number' = [called |-> TRUE, method |-> method, this |-> this, args |-> args,
                  result |-> CASE method = "toString" -> to_string(this, args)
                               [] method = "toFixed" -> to_fixed(this, args)
                               [] method = "toExponential" -> to_exponential(this, args)
                               [] method = "toPrecision" -> to_precision(this, args)]

\* the receivers of toString: int objects, Number objects, the prototype
\* object of Number and objects that do not hold a number
IntReceivers == { PrimitiveObject(Integer(n)) : n \in (-MaxNumber)..MaxNumber }

ToStringReceivers ==
    IntReceivers
    \cup { PrimitiveObject(NumberValue(f)) :
             f \in {Finite(255, 0), Finite(25, -1), NaN, Infinity(FALSE), Infinity(TRUE)} }
    \cup { number_proto, ScriptObject, PrimitiveObject([tag |-> "String"]) }

\* the arguments of toString: none, undefined, an int, a Number
RadixArgs ==
    { <<>>, <<Undefined>>, <<NumberValue(Finite(25, -1))>>,
      <<NumberValue(Finite(365, -1))>>, <<NumberValue(NaN)>> }
    \cup { <<Integer(r)>> : r \in (-1)..MaxRadix }

\* the receivers of toFixed, toExponential and toPrecision
FormatReceivers ==
    { PrimitiveObject(Integer(n)) : n \in {0, 1, 5, 9, 10, 100, 12345, -12345} }
    \cup { PrimitiveObject(NumberValue(f)) :
             f \in {Finite(1234, -7), Finite(125, -2), Finite(999, -2), Finite(5, -1),
                    Finite(15, -1), NaN, Infinity(FALSE)} }

\* the number of decimals up to which the decimal digits of the receiver are
\* those of the f64 nearest to it
ExactDecimals == 3

\* the arguments of toFixed and toExponential for a receiver
DigitsArgs(this) ==
    { args \in { <<>>, <<Undefined>>, <<NumberValue(Finite(25, -1))>> }
                 \cup { <<Integer(d)>> : d \in (-1)..MaxDigits } :
        LET f == coerce_to_number(this)
            digits == coerce_to_i32(arg_or(args, 0, Integer(0)))
        IN  (f.kind = "finite" /\ f.e < 0) => (digits <= ExactDecimals \/ digits > 20) }

\* the arguments of toPrecision for a receiver
PrecisionArgs(this) ==
    { args \in { <<>>, <<Undefined>>, <<NumberValue(Finite(25, -1))>> }
                 \cup { <<Integer(d)>> : d \in (-1)..MaxDigits } :
        LET f == coerce_to_number(this)
            digits == coerce_to_i32(arg_or(args, 0, Integer(0)))
        IN  (f.kind = "finite" /\ f.e < 0) => (digits <= ExactDecimals + 1 \/ digits > 21) }

\* one method of Number is called in a behaviour
NextNumber ==
    \/ ~number.called /\ \E this \in ToStringReceivers, args \in RadixArgs :
         CallNumber("toString", this, args)
           /\ UNCHANGED <<verify_vars, stack_vars, broadcast_vars, abc,
                          loading, generic, dispatch, more_vars>>
    \/ ~number.called /\ \E this \in FormatReceivers : \E args \in DigitsArgs(this) :
         CallNumber("toFixed", this, args)
           /\ UNCHANGED <<verify_vars, stack_vars, broadcast_vars, abc,
                          loading, generic, dispatch, more_vars>>
    \/ ~number.called /\ \E this \in FormatReceivers : \E args \in DigitsArgs(this) :
         CallNumber("toExponential", this, args)
           /\ UNCHANGED <<verify_vars, stack_vars, broadcast_vars, abc,
                          loading, generic, dispatch, more_vars>>
    \/ ~number.called /\ \E this \in FormatReceivers : \E args \in PrecisionArgs(this) :
         CallNumber("toPrecision", this, args)
           /\ UNCHANGED <<verify_vars, stack_vars, broadcast_vars, abc,
                          loading, generic, dispatch, more_vars>>

SpecNumber == InitStack /\ [][NextNumber]_vars

\* the receiver of the last call holds a number, and the number is finite
NumberReceiver ==
    /\ number.this.kind = "PrimitiveObject"
    /\ number.this.primitive.tag \in {"Integer", "Number"}

FiniteReceiver == NumberReceiver /\ coerce_to_number(number.this).kind = "finite"

\* the int32 that the first argument of the last call is coerced to, or
\* default without argument
ArgInt32(default) ==
    IF number.args = <<>> THEN default ELSE coerce_to_i32(number.args[1])

-----------------------------------------------------------------------------
(* C25 *)

\* C25: toString(radix) on a Number or int raises RangeError #1003 exactly
\* when the radix, coerced to int32, is below 2 or above 36; the radices 2 and
\* 36 are accepted, 1 and 37 are rejected, and without argument the radix is
\* 10.
C25_RadixRange ==
    (number.called /\ number.method = "toString" /\ NumberReceiver) =>
        LET radix == ArgInt32(10) IN
        /\ number.result.tag = "Err" <=> (radix < 2 \/ radix > 36)
        /\ number.result.tag = "Err" =>
              /\ number.result.error.class = "RangeError"
              /\ number.result.error.code = 1003
        /\ number.args \in {<<Integer(2)>>, <<Integer(36)>>} => number.result.tag = "Ok"
        /\ number.args \in {<<Integer(1)>>, <<Integer(37)>>} => number.result.tag = "Err"
        /\ number.args = <<>> =>
              /\ number.result.tag = "Ok"
              /\ number.result = print_with_radix(coerce_to_number(number.this), 10)

\* toString(37) was called on the int 37 and raised the error
C25_Witness ==
    /\ number.called
    /\ number.method = "toString"
    /\ number.this = PrimitiveObject(Integer(37))
    /\ number.args = <<Integer(37)>>
    /\ number.result.tag = "Err"

-----------------------------------------------------------------------------
(* C26 *)

\* the digit of value d
Digit(d) == SubSeq("0123456789abcdefghijklmnopqrstuvwxyz", d + 1, d + 1)

\* the representation of the natural number a in base r, most significant
\* digit first and without leading zeros
RECURSIVE Positional(_, _)
Positional(a, r) ==
    IF a < r THEN Digit(a) ELSE Positional(a \div r, r) \o Digit(a % r)

\* C26: for an int n and a radix r in 2..36 other than 10, toString(r) ends
\* and returns the representation of |n| in base r with the digits 0-9a-z,
\* most significant digit first and without leading zeros, after a '-' when n
\* is negative.
C26_Positional ==
    (number.called /\ number.method = "toString"
        /\ number.this \in IntReceivers
        /\ number.args # <<>> /\ number.args[1].tag = "Integer"
        /\ number.args[1].int \in (2..36) \ {10}) =>
        LET n == number.this.primitive.int
            r == number.args[1].int
        IN  /\ number.result # Diverged
            /\ number.result =
                  OkWith((IF n < 0 THEN "-" ELSE "") \o Positional(abs(n), r))
            /\ (n = 255 /\ r = 16) => number.result.value = "ff"
            /\ (n = -10 /\ r = 2) => number.result.value = "-1010"
            /\ (n = 36 /\ r = 36) => number.result.value = "10"
            /\ n = 0 => number.result.value = "0"

\* (-10).toString(2) was called
C26_Witness ==
    /\ number.called
    /\ number.method = "toString"
    /\ number.this = PrimitiveObject(Integer(-10))
    /\ number.args = <<Integer(2)>>
    /\ number.result.tag = "Ok"

-----------------------------------------------------------------------------
(* C27 *)

\* C27: toFixed(d) and toExponential(d) raise RangeError #1002 exactly when
\* d, coerced to int32, is outside 0..20, and then return no string; 0 and 20
\* are accepted, -1 and 21 are rejected, and without argument d is 0.
C27_DigitsRange ==
    (number.called /\ number.method \in {"toFixed", "toExponential"}) =>
        LET digits == ArgInt32(0) IN
        /\ number.result.tag = "Err" <=> (digits < 0 \/ digits > 20)
        /\ number.result.tag = "Err" =>
              /\ number.result.error.class = "RangeError"
              /\ number.result.error.code = 1002
              /\ "value" \notin DOMAIN number.result
        /\ number.args \in {<<Integer(0)>>, <<Integer(20)>>} => number.result.tag = "Ok"
        /\ number.args \in {<<Integer(-1)>>, <<Integer(21)>>} => number.result.tag = "Err"
        /\ number.args = <<>> =>
              /\ number.result.tag = "Ok"
              /\ number.method = "toFixed" =>
                    number.result = to_fixed(number.this, <<Integer(0)>>)
              /\ number.method = "toExponential" =>
                    number.result = to_exponential(number.this, <<Integer(0)>>)

\* toFixed(21) was called on 0 and raised the error
C27_Witness ==
    /\ number.called
    /\ number.method = "toFixed"
    /\ number.this = PrimitiveObject(Integer(0))
    /\ number.args = <<Integer(21)>>
    /\ number.result.tag = "Err"

-----------------------------------------------------------------------------
(* C28 *)

\* the exponent part of a string in scientific form: e, the sign and the
\* exponent without leading zeros; zero_exponent is the part for exponent 0
ExponentPart(x, zero_exponent) ==
    IF x = 0 THEN zero_exponent
    ELSE IF x > 0 THEN "e+" \o ToString(x)
    ELSE "e-" \o ToString(-x)

\* a mantissa of d + 1 digits with the point after the first one
MantissaPart(mantissa, d) ==
    SubSeq(mantissa, 1, 1) \o (IF d > 0 THEN "." \o SubSeq(mantissa, 2, d + 1) ELSE "")

\* the strings in scientific form with d fractional digits that are nearest
\* to the number f = m * 10^e
ScientificForms(f, d, zero_exponent) ==
    LET a == abs(f.m)
        sign == IF f.m < 0 THEN "-" ELSE ""
        k == digit_count(a)
    IN  IF a = 0 THEN { MantissaPart("0" \o zeros(d), d) \o ExponentPart(0, zero_exponent) }
        ELSE IF k <= d + 1
        THEN { sign \o MantissaPart(ToString(a) \o zeros(d + 1 - k), d)
                    \o ExponentPart(k - 1 + f.e, zero_exponent) }
        ELSE LET p == pow(10, k - 1 - d) IN
             { sign \o (IF q = pow(10, d + 1)
                        THEN MantissaPart("1" \o zeros(d), d)
                               \o ExponentPart(k + f.e, zero_exponent)
                        ELSE MantissaPart(ToString(q), d)
                               \o ExponentPart(k - 1 + f.e, zero_exponent)) :
               q \in { c \in {a \div p, (a \div p) + 1} : 2 * abs(c * p - a) <= p } }

\* toExponential was called on a finite number with d in 0..20
ExponentialCalled ==
    /\ number.called
    /\ number.method = "toExponential"
    /\ FiniteReceiver
    /\ ArgInt32(0) \in 0..20

\* C28 as claimed: toExponential(d) of a finite number returns the mantissa
\* with d fractional digits, e, an explicit sign and the exponent without
\* leading zeros, for every exponent including zero, so that
\* (0).toExponential(0) is "0e+0".
C28_AsClaimed ==
    /\ ExponentialCalled =>
          /\ number.result.tag = "Ok"
          /\ number.result.value
                \in ScientificForms(coerce_to_number(number.this), ArgInt32(0), "e+0")
    /\ (ExponentialCalled /\ number.this = PrimitiveObject(Integer(0))
           /\ number.args = <<Integer(0)>>) => number.result.value = "0e+0"

\* C28: toExponential(d) of a finite number returns the mantissa with d
\* fractional digits, followed by e, an explicit sign and the exponent without
\* leading zeros when the exponent is not zero and by nothing when it is zero:
\* (0).toExponential(0) is "0", (12345).toExponential(2) is "1.23e+4" and
\* (0.0001234).toExponential(3) is "1.234e-4".
C28_ExponentZeroDropped ==
    /\ ExponentialCalled =>
          /\ number.result.tag = "Ok"
          /\ number.result.value
                \in ScientificForms(coerce_to_number(number.this), ArgInt32(0), "")
    /\ (ExponentialCalled /\ number.args = <<Integer(0)>>
           /\ number.this = PrimitiveObject(Integer(0))) => number.result.value = "0"
    /\ (ExponentialCalled /\ number.args = <<Integer(2)>>
           /\ number.this = PrimitiveObject(Integer(12345))) =>
          number.result.value = "1.23e+4"
    /\ (ExponentialCalled /\ number.args = <<Integer(3)>>
           /\ number.this = PrimitiveObject(NumberValue(Finite(1234, -7)))) =>
          number.result.value = "1.234e-4"

\* (0).toExponential(0) was called and returned the mantissa alone
C28_Witness ==
    /\ ExponentialCalled
    /\ number.this = PrimitiveObject(Integer(0))
    /\ number.args = <<Integer(0)>>
    /\ number.result = OkWith("0")

-----------------------------------------------------------------------------
(* C29 *)

\* the characters of s before the first e
RECURSIVE BeforeExponent(_)
BeforeExponent(s) ==
    IF s = "" \/ SubSeq(s, 1, 1) = "e" THEN ""
    ELSE SubSeq(s, 1, 1) \o BeforeExponent(SubSeq(s, 2, Len(s)))

\* s without the zeros it starts with
RECURSIVE WithoutLeadingZeros(_)
WithoutLeadingZeros(s) ==
    IF s # "" /\ SubSeq(s, 1, 1) = "0" THEN WithoutLeadingZeros(SubSeq(s, 2, Len(s)))
    ELSE s

\* the number of significant digits of a decimal string: the digits of the
\* mantissa from the first one that is not zero, and all digits of a zero
SignificantDigits(s) ==
    LET digits == replace(replace(BeforeExponent(s), "-", ""), ".", "")
    IN  IF WithoutLeadingZeros(digits) = "" THEN Len(digits)
        ELSE Len(WithoutLeadingZeros(digits))

\* the string is in scientific form
IsScientific(s) == BeforeExponent(s) # s

\* the number of digits of the integer part of f = m * 10^e
IntegerDigits(f) ==
    LET a == abs(f.m)
        integer_part == IF f.e >= 0 THEN a * pow(10, f.e) ELSE a \div pow(10, -f.e)
    IN  digit_count(integer_part)

\* toPrecision was called on a finite number with d in 1..21
PrecisionCalled ==
    /\ number.called
    /\ number.method = "toPrecision"
    /\ FiniteReceiver
    /\ number.args # <<>>
    /\ number.args[1].tag \in {"Integer", "Number"}
    /\ ArgInt32(0) \in 1..21

\* C29: toPrecision(d) with d in 1..21 returns a string with exactly d
\* significant digits, in scientific form when the integer part of the number
\* has more than d digits and in fixed form otherwise; 0 and the integers of
\* one digit are in fixed form for d = 1.
C29_AsClaimed ==
    PrecisionCalled =>
        /\ number.result.tag = "Ok"
        /\ SignificantDigits(number.result.value) = ArgInt32(0)
        /\ IsScientific(number.result.value)
              <=> IntegerDigits(coerce_to_number(number.this)) > ArgInt32(0)

\* (0).toPrecision(1) returns a string in scientific form
C29_ZeroScientific ==
    /\ PrecisionCalled
    /\ number.this = PrimitiveObject(Integer(0))
    /\ number.args = <<Integer(1)>>
    /\ number.result = OkWith("0e+1")

\* (5).toPrecision(3) returns a string of one significant digit
C29_NotPadded ==
    /\ PrecisionCalled
    /\ number.this = PrimitiveObject(Integer(5))
    /\ number.args = <<Integer(3)>>
    /\ number.result = OkWith("5")

-----------------------------------------------------------------------------
(* Event dispatch *)

\* the largest number of handlers of a target
MaxHandlers == 3

\* an event object: its type, whether it can be cancelled and whether a
\* handler has cancelled it
Event(event_type, cancelable) ==
    [tag |-> "Object", kind |-> "Event", event_type |-> event_type,
     cancelable |-> cancelable, cancelled |-> FALSE]

\* Event.preventDefault: cancels an event that can be cancelled
preventDefault(event) ==
    IF event.cancelable THEN [event EXCEPT !.cancelled = TRUE] ELSE event

\* Event.isDefaultPrevented
isDefaultPrevented(event) == event.cancelled

\* a target and what its handlers for the event do, in the order in which
\* they are called
DispatchTarget(id, handlers) ==
    [tag |-> "Object", kind |-> EventDispatcher, id |-> id, handlers |-> handlers]

\* the event after the handlers from the k-th on have been called with it
RECURSIVE call_handlers(_, _, _)
call_handlers(event, handlers, k) ==
    IF k > Len(handlers) THEN event
    ELSE call_handlers(IF handlers[k] = "preventDefault" THEN preventDefault(event)
                       ELSE event,
                       handlers, k + 1)

\* events::dispatch_event(activation, this, event): the handlers of the
\* target are called with the event; the result is an error when the dispatch
\* fails, and else whether the default action of the event is still to be done
events_dispatch_event(this, event, fails) ==
    LET dispatched == call_handlers(event, this.handlers, 1) IN
    [event |-> dispatched,
     result |-> IF fails THEN Err([class |-> "Error"])
                ELSE OkWith(~isDefaultPrevented(dispatched))]

\* dispatch_event returning whether the event was cancelled
dispatch_event_was_cancelled(event, target, fails) ==
    LET dispatched == events_dispatch_event(target, event, fails) IN
    IF dispatched.result.tag = "Ok"
    THEN [dispatched EXCEPT !.result = OkWith(~dispatched.result.value)]
    ELSE dispatched

\* Avm2::dispatch_event: events::dispatch_event is called in an activation
\* made from nothing, with the target first and the event second, and its
\* result is returned as it is
dispatch_event(event, target, fails) ==
    events_dispatch_event(target, event, fails)

\* the host dispatches an event on a target
DispatchEvent(event, target, fails) ==
    LET dispatched == dispatch_event(event, target, fails) IN
    dispatch' = [called |-> TRUE, event |-> event, target |-> target, fails |-> fails,
                 dispatched |-> dispatched.event, result |-> dispatched.result]

\* the events of the model
DispatchEvents == { Event(event_type, cancelable) :
                      event_type \in EventNames, cancelable \in BOOLEAN }

\* what the handlers of the model do with the event
HandlerKinds == {"return", "preventDefault"}

HandlerInputs ==
    UNION { [1..n -> HandlerKinds] : n \in 0..MaxHandlers }

\* the targets of the model
DispatchTargets == { DispatchTarget(1, handlers) : handlers \in HandlerInputs }

NextDispatch ==
    \E event \in DispatchEvents, target \in DispatchTargets, fails \in BOOLEAN :
        DispatchEvent(event, target, fails)
          /\ UNCHANGED <<verify_vars, stack_vars, broadcast_vars, abc,
                         loading, generic, number, more_vars>>

SpecDispatch == InitStack /\ [][NextDispatch]_vars

-----------------------------------------------------------------------------
(* C30 *)

\* a handler of the last dispatch has called preventDefault
HandlerPrevented ==
    \E k \in 1..Len(dispatch.target.handlers) :
        dispatch.target.handlers[k] = "preventDefault"

-----------------------------------------------------------------------------
(* Preferences of the desktop frontend *)

\* the largest number of setter calls on one document
MaxSetCalls == 2

\* toml_edit items: no item, values and tables
ItemNone == [kind |-> "None"]

TomlString(s) == [kind |-> "Value", type |-> "String", v |-> s]

TomlBoolean(b) == [kind |-> "Value", type |-> "Boolean", v |-> b]

TomlInteger(i) == [kind |-> "Value", type |-> "Integer", v |-> i]

\* a float of 64 bits, here a number of quarters
TomlFloat(quarters) == [kind |-> "Value", type |-> "Float", v |-> [bits |-> 64, quarters |-> quarters]]

InlineTable(items) == [kind |-> "Value", type |-> "InlineTable", items |-> items]

Table(items) == [kind |-> "Table", items |-> items]

\* an f32, here a number of quarters, and `volume as f64`
F32(quarters) == [bits |-> 32, quarters |-> quarters]

as_f64_from_f32(volume) == [bits |-> 64, quarters |-> volume.quarters]

\* as_str of GraphicsBackend, PowerPreference, FilenamePattern and
\* StorageBackend, and to_string of LanguageIdentifier
as_str(variant) ==
    CASE variant = "Default" -> "default"
      [] variant = "Vulkan" -> "vulkan"
      [] variant = "Low" -> "low"
      [] variant = "High" -> "high"
      [] variant = "SingleFile" -> "single_file"
      [] variant = "WithTimestamp" -> "with_timestamp"
      [] variant = "Disk" -> "disk"
      [] variant = "Memory" -> "memory"

LanguageIdentifier(language, script, region, variant) ==
    [language |-> language, script |-> script, region |-> region, variant |-> variant]

language_to_string(id) ==
    id.language \o (IF id.script = "" THEN "" ELSE "-" \o id.script)
                \o (IF id.region = "" THEN "" ELSE "-" \o id.region)
                \o (IF id.variant = "" THEN "" ELSE "-" \o id.variant)

\* toml_edit::value of a &str or String, of a bool and of an f64
value_str(v) == TomlString(v)

value_bool(v) == TomlBoolean(v)

value_f64(v) == [kind |-> "Value", type |-> "Float", v |-> v]

\* `item[key] = new` of toml_edit: an item that is none becomes an inline
\* table, a table or an inline table gets or replaces the entry, and on every
\* other item the index is not found and the thread panics
index_mut_assign(item, key, new) ==
    IF item = ItemNone THEN InlineTable(insert(EmptyMap, key, new))
    ELSE IF item.kind = "Table" THEN Table(insert(item.items, key, new))
    ELSE IF item.kind = "Value" /\ item.type = "InlineTable"
    THEN InlineTable(insert(item.items, key, new))
    ELSE Panic

\* `toml_document[key] = new`: the root table gets or replaces the entry
document_assign(toml_document, key, new) == insert(toml_document, key, new)

\* `toml_document[table][key] = new`: the root table gets the entry of the
\* table, none when it has no such entry, and the entry is assigned in it
document_assign_in(toml_document, table, key, new) ==
    LET item == IF table \in DOMAIN toml_document THEN toml_document[table] ELSE ItemNone
        assigned == index_mut_assign(item, key, new)
    IN  IF assigned = Panic THEN Panic ELSE insert(toml_document, table, assigned)

\* DocumentMut::remove
document_remove(toml_document, key) ==
    [k \in DOMAIN toml_document \ {key} |-> toml_document[k]]

\* the entry of a preference in a document, none when there is no entry
entry(toml_document, path) ==
    IF path[1] \notin DOMAIN toml_document THEN ItemNone
    ELSE IF Len(path) = 1 THEN toml_document[path[1]]
    ELSE LET item == toml_document[path[1]] IN
         IF "items" \in DOMAIN item /\ path[2] \in DOMAIN item.items
         THEN item.items[path[2]] ELSE ItemNone

\* SavedGlobalPreferences::default
DefaultPreferences ==
    [graphics_backend |-> "Default", graphics_power_preference |-> "High",
     language |-> LanguageIdentifier("en", "", "US", ""), output_device |-> NoValue,
     mute |-> FALSE, volume |-> F32(4),
     log |-> [filename_pattern |-> "SingleFile"], storage |-> [backend |-> "Disk"]]

\* read_preferences: the value of an entry that is valid, and else the default
parse_variant(item, variants, default) ==
    IF \E variant \in variants : item = TomlString(as_str(variant))
    THEN CHOOSE variant \in variants : item = TomlString(as_str(variant))
    ELSE default

Languages ==
    { LanguageIdentifier("en", "", "US", ""),
      LanguageIdentifier("en", "Latn", "US", "valencia") }

read_preferences(toml_document) ==
    LET d == DefaultPreferences
        e(path) == entry(toml_document, path)
    IN  [graphics_backend |->
             parse_variant(e(<<"graphics_backend">>), {"Default", "Vulkan"}, d.graphics_backend),
         graphics_power_preference |->
             parse_variant(e(<<"graphics_power_preference">>), {"Low", "High"},
                           d.graphics_power_preference),
         language |->
             IF \E id \in Languages : e(<<"language">>) = TomlString(language_to_string(id))
             THEN CHOOSE id \in Languages :
                      e(<<"language">>) = TomlString(language_to_string(id))
             ELSE d.language,
         output_device |->
             IF e(<<"output_device">>).kind = "Value" /\ e(<<"output_device">>).type = "String"
             THEN Some(e(<<"output_device">>).v) ELSE d.output_device,
         mute |->
             IF e(<<"mute">>).kind = "Value" /\ e(<<"mute">>).type = "Boolean"
             THEN e(<<"mute">>).v ELSE d.mute,
         volume |->
             IF e(<<"volume">>).kind = "Value" /\ e(<<"volume">>).type = "Float"
             THEN F32(e(<<"volume">>).v.quarters) ELSE d.volume,
         log |-> [filename_pattern |->
             parse_variant(e(<<"log", "filename_pattern">>), {"SingleFile", "WithTimestamp"},
                           d.log.filename_pattern)],
         storage |-> [backend |->
             parse_variant(e(<<"storage", "backend">>), {"Disk", "Memory"},
                           d.storage.backend)]]

\* DocumentHolder::edit: the closure gets the values and the document of the
\* holder and changes both in place; a panic of the closure leaves them as
\* they are when it is raised
edit(holder, fun(_, _)) ==
    LET edited == fun(holder.values, holder.toml_document) IN
    IF edited = Panic THEN [holder EXCEPT !.panicked = TRUE]
    ELSE [holder EXCEPT !.values = edited.values, !.toml_document = edited.toml_document]

\* the setters of PreferencesWriter
set_graphics_backend(self, backend) ==
    LET fun(values, toml_document) ==
            [toml_document |-> document_assign(toml_document, "graphics_backend",
                                               value_str(as_str(backend))),
             values |-> [values EXCEPT !.graphics_backend = backend]]
    IN  edit(self, fun)

set_graphics_power_preference(self, preference) ==
    LET fun(values, toml_document) ==
            [toml_document |-> document_assign(toml_document, "graphics_power_preference",
                                               value_str(as_str(preference))),
             values |-> [values EXCEPT !.graphics_power_preference = preference]]
    IN  edit(self, fun)

set_language(self, language) ==
    LET fun(values, toml_document) ==
            [toml_document |-> document_assign(toml_document, "language",
                                               value_str(language_to_string(language))),
             values |-> [values EXCEPT !.language = language]]
    IN  edit(self, fun)

\* set_output_device without the removal of the key
set_output_device_keep(self, name) ==
    LET fun(values, toml_document) ==
            [toml_document |-> IF name # NoValue
                               THEN document_assign(toml_document, "output_device",
                                                    value_str(name.value))
                               ELSE toml_document,
             values |-> [values EXCEPT !.output_device = name]]
    IN  edit(self, fun)

set_output_device(self, name) ==
    LET fun(values, toml_document) ==
            [toml_document |-> IF name # NoValue
                               THEN document_assign(toml_document, "output_device",
                                                    value_str(name.value))
                               ELSE document_remove(toml_document, "output_device"),
             values |-> [values EXCEPT !.output_device = name]]
    IN  edit(self, fun)

set_mute(self, mute) ==
    LET fun(values, toml_document) ==
            [toml_document |-> document_assign(toml_document, "mute", value_bool(mute)),
             values |-> [values EXCEPT !.mute = mute]]
    IN  edit(self, fun)

set_volume(self, volume) ==
    LET fun(values, toml_document) ==
            [toml_document |-> document_assign(toml_document, "volume",
                                               value_f64(as_f64_from_f32(volume))),
             values |-> [values EXCEPT !.volume = volume]]
    IN  edit(self, fun)

set_log_filename_pattern(self, pattern) ==
    LET fun(values, toml_document) ==
            LET assigned == document_assign_in(toml_document, "log", "filename_pattern",
                                               value_str(as_str(pattern)))
            IN  IF assigned = Panic THEN Panic
                ELSE [toml_document |-> assigned,
                      values |-> [values EXCEPT !.log.filename_pattern = pattern]]
    IN  edit(self, fun)

set_storage_backend(self, backend) ==
    LET fun(values, toml_document) ==
            LET assigned == document_assign_in(toml_document, "storage", "backend",
                                               value_str(as_str(backend)))
            IN  IF assigned = Panic THEN Panic
                ELSE [toml_document |-> assigned,
                      values |-> [values EXCEPT !.storage.backend = backend]]
    IN  edit(self, fun)

\* the documents of the model
Documents ==
    { EmptyMap,
      [k \in {"graphics_backend", "graphics_power_preference", "language"} |->
          IF k = "language" THEN TomlString("???") ELSE TomlString("fast")],
      [k \in {"output_device", "mute", "volume"} |->
          IF k = "output_device" THEN TomlString("Speakers")
          ELSE IF k = "mute" THEN TomlBoolean(TRUE) ELSE TomlFloat(2)],
      [k \in {"log", "storage"} |->
          IF k = "log"
          THEN InlineTable(insert(EmptyMap, "filename_pattern", TomlString("with_timestamp")))
          ELSE InlineTable(insert(EmptyMap, "backend", TomlString("disk")))],
      [k \in {"log", "storage"} |->
          IF k = "log"
          THEN Table(insert(EmptyMap, "filename_pattern", TomlString("with_timestamp")))
          ELSE Table(insert(insert(EmptyMap, "backend", TomlString("disk")),
                            "other", TomlInteger(1)))],
      [k \in {"log", "mute"} |->
          IF k = "log" THEN TomlString("single_file") ELSE TomlBoolean(FALSE)],
      [k \in {"storage"} |-> TomlInteger(5)] }

\* the document is read and a holder of it and of its values is made
OpenDocument(toml_document) ==
    /\ ~prefs.opened
    /\ prefs' = [opened |-> TRUE, toml_document |-> toml_document,
                 values |-> read_preferences(toml_document), panicked |-> FALSE,
                 original |-> [toml_document |-> toml_document,
                               values |-> read_preferences(toml_document)],
                 set |-> EmptyMap, calls |-> 0]

\* one setter call through a PreferencesWriter of the holder; set keeps the
\* last value that was passed for each preference
CallSetter(path, v, after) ==
    /\ prefs.opened
    /\ ~prefs.panicked
    /\ prefs.calls < MaxSetCalls
    /\ prefs' = [after EXCEPT !.set = insert(prefs.set, path, v),
                              !.calls = prefs.calls + 1]

SetGraphicsBackend(backend) ==
    CallSetter(<<"graphics_backend">>, backend, set_graphics_backend(prefs, backend))

SetGraphicsPowerPreference(preference) ==
    CallSetter(<<"graphics_power_preference">>, preference,
               set_graphics_power_preference(prefs, preference))

SetLanguage(language) ==
    CallSetter(<<"language">>, language, set_language(prefs, language))

SetOutputDevice(name) ==
    CallSetter(<<"output_device">>, name, set_output_device(prefs, name))

SetMute(mute) == CallSetter(<<"mute">>, mute, set_mute(prefs, mute))

SetVolume(volume) == CallSetter(<<"volume">>, volume, set_volume(prefs, volume))

SetLogFilenamePattern(pattern) ==
    CallSetter(<<"log", "filename_pattern">>, pattern,
               set_log_filename_pattern(prefs, pattern))

SetStorageBackend(backend) ==
    CallSetter(<<"storage", "backend">>, backend, set_storage_backend(prefs, backend))

core_vars == <<verify_vars, stack_vars, broadcast_vars, abc,
               loading, generic, number, dispatch>>

NextPrefs ==
    \/ \E toml_document \in Documents : OpenDocument(toml_document) /\ UNCHANGED <<core_vars, cinit, calls>>
    \/ \E backend \in {"Default", "Vulkan"} :
         SetGraphicsBackend(backend) /\ UNCHANGED <<core_vars, cinit, calls>>
    \/ \E preference \in {"Low", "High"} :
         SetGraphicsPowerPreference(preference) /\ UNCHANGED <<core_vars, cinit, calls>>
    \/ \E language \in Languages : SetLanguage(language) /\ UNCHANGED <<core_vars, cinit, calls>>
    \/ \E name \in {NoValue, Some("Speakers"), Some("Headphones")} :
         SetOutputDevice(name) /\ UNCHANGED <<core_vars, cinit, calls>>
    \/ \E mute \in BOOLEAN : SetMute(mute) /\ UNCHANGED <<core_vars, cinit, calls>>
    \/ \E volume \in {F32(0), F32(2)} : SetVolume(volume) /\ UNCHANGED <<core_vars, cinit, calls>>
    \/ \E pattern \in {"SingleFile", "WithTimestamp"} :
         SetLogFilenamePattern(pattern) /\ UNCHANGED <<core_vars, cinit, calls>>
    \/ \E backend \in {"Disk", "Memory"} :
         SetStorageBackend(backend) /\ UNCHANGED <<core_vars, cinit, calls>>

SpecPrefs == InitStack /\ [][NextPrefs]_vars

-----------------------------------------------------------------------------
(* C31 *)

\* the preferences, each by the path of its entry in the document
Preferences ==
    { <<"graphics_backend">>, <<"graphics_power_preference">>, <<"language">>,
      <<"output_device">>, <<"mute">>, <<"volume">>,
      <<"log", "filename_pattern">>, <<"storage", "backend">> }

\* the value of a preference in SavedGlobalPreferences
ValueOf(values, path) ==
    CASE path = <<"graphics_backend">> -> values.graphics_backend
      [] path = <<"graphics_power_preference">> -> values.graphics_power_preference
      [] path = <<"language">> -> values.language
      [] path = <<"output_device">> -> values.output_device
      [] path = <<"mute">> -> values.mute
      [] path = <<"volume">> -> values.volume
      [] path = <<"log", "filename_pattern">> -> values.log.filename_pattern
      [] path = <<"storage", "backend">> -> values.storage.backend

\* the entry of the document that stands for a value of a preference
EntryFor(path, v) ==
    CASE path = <<"mute">> -> TomlBoolean(v)
      [] path = <<"volume">> -> TomlFloat(v.quarters)
      [] path = <<"language">> -> TomlString(language_to_string(v))
      [] path = <<"output_device">> -> IF v = NoValue THEN ItemNone ELSE TomlString(v.value)
      [] OTHER -> TomlString(as_str(v))

\* values and document agree with the setter calls made so far
SettersApplied ==
    /\ ~prefs.panicked
    /\ \A path \in Preferences :
         IF path \in DOMAIN prefs.set
         THEN /\ ValueOf(prefs.values, path) = prefs.set[path]
              /\ entry(prefs.toml_document, path) = EntryFor(path, prefs.set[path])
         ELSE /\ ValueOf(prefs.values, path) = ValueOf(prefs.original.values, path)
              /\ entry(prefs.toml_document, path)
                   = entry(prefs.original.toml_document, path)
    /\ (<<"output_device">> \in DOMAIN prefs.set /\ prefs.set[<<"output_device">>] = NoValue)
         => /\ "output_device" \notin DOMAIN prefs.toml_document
            /\ DOMAIN prefs.set = {<<"output_device">>}
                 => prefs.toml_document
                      = document_remove(prefs.original.toml_document, "output_device")

\* C31: after any sequence of setter calls the value in memory and the entry
\* of the document of every preference that was set equal the last value set,
\* whatever entry the document had before, the entries of the other
\* preferences are unchanged, and set_output_device(None) removes the key
\* output_device, so that Some(name) followed by None leaves the document
\* without the key.
C31_AsClaimed == prefs.opened => SettersApplied

\* the same for the documents in which log and storage are tables, inline
\* tables or absent
C31_TableParents ==
    (/\ prefs.opened
     /\ \A table \in {"log", "storage"} :
          table \in DOMAIN prefs.original.toml_document
            => "items" \in DOMAIN prefs.original.toml_document[table])
        => SettersApplied

\* set_log_filename_pattern was called on a document whose entry log is a
\* string and has panicked
C31_LogNotATable ==
    /\ prefs.opened
    /\ "log" \in DOMAIN prefs.original.toml_document
    /\ prefs.original.toml_document["log"] = TomlString("single_file")
    /\ <<"log", "filename_pattern">> \in DOMAIN prefs.set
    /\ prefs.panicked
    /\ prefs.toml_document = prefs.original.toml_document

\* Some(name) and then None were set on a document without output_device
C31_DeviceRemoved ==
    /\ prefs.opened
    /\ prefs.calls = 2
    /\ prefs.original.toml_document = EmptyMap
    /\ prefs.set = insert(EmptyMap, <<"output_device">>, NoValue)
    /\ prefs.toml_document = EmptyMap

-----------------------------------------------------------------------------
(* C32 *)

\* the loop of a broadcast ends with Ok in this step
LoopEnds ==
    /\ bcast.state = "handler"
    /\ bcast'.state = "done"
    /\ bcast'.result = "Ok"
    /\ bcast.event_name \in BROADCAST_WHITELIST

C32_RereadStep == LoopEnds => bcast'.i = Len(Bucket(bcast.event_name))

\* C32 as claimed: broadcast_event reads the length of the bucket again at
\* each iteration, so that its loop ends at the length the bucket has then.
C32_AsClaimed == [][C32_RereadStep]_vars

C32_OnceStep ==
    /\ (bcast.state = "handler" /\ bcast'.state # "idle"
          /\ bcast'.event_name = bcast.event_name /\ bcast'.start_bucket = bcast.start_bucket
          /\ bcast'.delivered # <<>>) =>
          bcast'.el_length = bcast.el_length
    /\ (bcast'.state = "handler" /\ bcast'.event_name \in BROADCAST_WHITELIST) =>
          /\ bcast'.el_length = Len(bcast'.start_bucket)
          /\ bcast'.i < bcast'.el_length
          /\ bcast'.delivered[Len(bcast'.delivered)]
               = get(broadcast_list'[bcast'.event_name], bcast'.i)
    /\ LoopEnds =>
          /\ bcast'.i = bcast.el_length
          /\ bcast.el_length = Len(bcast.start_bucket)
          /\ bcast.el_length + Len(bcast.late) = Len(Bucket(bcast.event_name))

\* C32: broadcast_event reads the length of the bucket once, before its loop
\* starts, and the loop runs up to that length whatever is registered
\* meanwhile; at each iteration it reads the entry of the bucket at the index
\* from the list as it is then.
C32_LengthReadOnce == [][C32_OnceStep]_vars

\* a broadcast has ended with Ok at the length read at its start although
\* the bucket has grown by a listener since
C32_Witness ==
    /\ bcast.state = "done"
    /\ bcast.result = "Ok"
    /\ bcast.event_name = "enterFrame"
    /\ bcast.late # <<>>
    /\ bcast.i = bcast.el_length
    /\ bcast.el_length = 2
    /\ bcast.el_length < Len(Bucket("enterFrame"))

-----------------------------------------------------------------------------
(* C33 *)

\* the ABC file of C and D in which C is final when is_final holds
FinalUnit(is_final) ==
    [VerifyUnit EXCEPT
        !.instances = << AbcInstance("C", 1, "protected:C", is_final, 0, <<>>),
                         AbcInstance("D", 2, "protected:D", FALSE, 2, <<>>) >>]

FinalClassTable(sys, is_final) ==
    [ClassTable(sys) EXCEPT
        !["C"] = from_abc_index(FinalUnit(is_final), 0, VerifyDomain).value]

InitFinal ==
    /\ \E sys \in BOOLEAN, is_final \in BOOLEAN : classes = FinalClassTable(sys, is_final)
    /\ verify = [class |-> None, superclass |-> None, result |-> None]
    /\ InitAvm2

SpecFinal == InitFinal /\ [][NextVerify]_vars

\* Class::is_final
is_final(class) == FINAL \in class.attributes

\* validate_class has been called on a class that is not a system class, with
\* a superclass that is final
FinalSuperclass ==
    /\ verify.result # None
    /\ verify.superclass # None
    /\ is_final(classes[verify.superclass])
    /\ ~classes[verify.class].is_system

\* C33: validate_class of a class that is not a system class, with a
\* superclass that has the attribute FINAL, returns a verification error.
C33_AsClaimed == FinalSuperclass => verify.result # "Ok"

\* validate_class has returned Ok for a class without traits whose
\* superclass is final
C33_FinalExtended ==
    /\ FinalSuperclass
    /\ classes[verify.class].instance_traits = <<>>
    /\ verify.result = "Ok"

-----------------------------------------------------------------------------
(* Class initializers *)

\* the largest number of classes, and of class initializers in progress
MaxInitClasses == 1

MaxInitDepth == 3

\* Class::for_activation: the class of an activation object, with the traits
\* of the method body
for_activation(name, traits) ==
    [Class_new(name, None, "<Activation object constructor>",
               "<Activation object class constructor>")
        EXCEPT !.instance_traits = traits, !.is_system = FALSE]

\* Class::is_class_initialized
is_class_initialized(self) == self.class_initializer_called

\* mark_class_initialized that leaves the flag as it is
mark_class_initialized_unset(self) == self

\* Class::mark_class_initialized
mark_class_initialized(self) == [self EXCEPT !.class_initializer_called = TRUE]

\* Class::set_attributes
set_attributes(self, attributes) == [self EXCEPT !.attributes = attributes]

\* the ways in which a class is created
Constructors == {"new", "from_abc_index", "for_activation"}

\* a class is created
NewClass(constructor) ==
    /\ Len(cinit.classes) < MaxInitClasses
    /\ cinit' = [cinit EXCEPT
          !.classes = Append(@,
              CASE constructor = "new" -> Class_new("C", None, NativeInit, NativeInit)
                [] constructor = "from_abc_index" ->
                      from_abc_index(LoadingUnit(<<>>, <<>>), 0, EmptyMap).value
                [] constructor = "for_activation" -> for_activation("f", <<>>)),
          !.runs = Append(@, <<>>)]

\* a class is changed by a setter that is not mark_class_initialized
SetAttributes(c, attributes) ==
    /\ c \in 1..Len(cinit.classes)
    /\ cinit.classes[c].attributes # attributes
    /\ cinit' = [cinit EXCEPT !.classes[c] = set_attributes(@, attributes)]

\* A reference to class c, from outside or from a class initializer that is
\* running, made through a caller that runs the class initializer only when
\* is_class_initialized is false. The caller marks the class before it calls
\* the initializer (order "mark, run") or after the initializer has returned
\* (order "run, mark"). runs records the order of each run of the
\* initializer of the class.
Reference(c, order) ==
    /\ c \in 1..Len(cinit.classes)
    /\ IF is_class_initialized(cinit.classes[c])
       THEN /\ \E k \in 1..Len(cinit.running) : cinit.running[k].class = c
            /\ c \notin cinit.reentered
            /\ cinit' = [cinit EXCEPT !.reentered = @ \cup {c}]
       ELSE /\ Len(cinit.running) < MaxInitDepth
            /\ cinit' = [cinit EXCEPT
                  !.classes[c] = IF order = "mark, run" THEN mark_class_initialized(@)
                                 ELSE @,
                  !.runs[c] = Append(@, order),
                  !.running = Append(@, [class |-> c, order |-> order]),
                  !.reentered = IF \E k \in 1..Len(cinit.running) :
                                      cinit.running[k].class = c
                                THEN @ \cup {c} ELSE @]

\* the class initializer that was called last returns to its caller
InitializerReturns ==
    /\ cinit.running # <<>>
    /\ LET top == cinit.running[Len(cinit.running)] IN
       cinit' = [cinit EXCEPT
          !.classes[top.class] = IF top.order = "run, mark" THEN mark_class_initialized(@)
                                 ELSE @,
          !.running = SubSeq(@, 1, Len(@) - 1)]

init_others == <<verify_vars, stack_vars, broadcast_vars, abc,
                 loading, generic, number, dispatch, prefs, calls>>

NextClassInit ==
    \/ \E constructor \in Constructors : NewClass(constructor) /\ UNCHANGED init_others
    \/ \E c \in 1..MaxInitClasses, attributes \in {{}, {FINAL}} :
         SetAttributes(c, attributes) /\ UNCHANGED init_others
    \/ \E c \in 1..MaxInitClasses, order \in {"mark, run", "run, mark"} :
         Reference(c, order) /\ UNCHANGED init_others
    \/ InitializerReturns /\ UNCHANGED init_others

SpecClassInit == InitStack /\ [][NextClassInit]_vars

-----------------------------------------------------------------------------
(* C34 *)

\* a class that is new in this step has the flag unset, and the flag of a
\* class is never reset
C34_FlagStep ==
    /\ Len(cinit'.classes) >= Len(cinit.classes)
    /\ \A c \in 1..Len(cinit'.classes) :
         IF c > Len(cinit.classes)
         THEN ~is_class_initialized(cinit'.classes[c])
         ELSE is_class_initialized(cinit.classes[c])
                 => is_class_initialized(cinit'.classes[c])

\* the flag is set when an initializer of the class has been run and has
\* returned, and only when one has been run
C34_Marked ==
    \A c \in 1..Len(cinit.classes) :
       /\ is_class_initialized(cinit.classes[c]) => cinit.runs[c] # <<>>
       /\ (cinit.runs[c] # <<>> /\ \A k \in 1..Len(cinit.running) :
                                      cinit.running[k].class # c)
             => is_class_initialized(cinit.classes[c])

\* the initializer of every class whose callers are all of the order has been
\* run at most once
AtMostOnce(order) ==
    \A c \in 1..Len(cinit.classes) :
       (\A k \in 1..Len(cinit.runs[c]) : cinit.runs[c][k] = order)
           => Len(cinit.runs[c]) <= 1

-----------------------------------------------------------------------------
(* Script initializers and the call stack: core/src/avm2.rs *)

\* the largest number of calls in progress
MaxCallDepth == 3

\* CallStack::push, CallStack::push_global_init and CallStack::pop
GlobalInit == [node |-> "GlobalInit"]

CallNode(calling) == [node |-> "Call", calling |-> calling]

push_call(call_stack, calling) == Append(call_stack, CallNode(calling))

push_global_init(call_stack) == Append(call_stack, GlobalInit)

pop_call(call_stack) ==
    IF call_stack = <<>> THEN call_stack ELSE SubSeq(call_stack, 1, Len(call_stack) - 1)

\* Avm2::run_script_initializer up to the call of the initializer: the
\* activation is made from the script, the parameters of a native method are
\* resolved, and the marker is pushed. started tells whether the initializer
\* is called; the call returns result when it is not.
run_script_initializer_entry(call_stack, method, from_script, resolve_parameters) ==
    IF from_script.tag = "Err"
    THEN [started |-> FALSE, call_stack |-> call_stack, result |-> from_script]
    ELSE IF method = "Native" /\ resolve_parameters.tag = "Err"
    THEN [started |-> FALSE, call_stack |-> call_stack, result |-> resolve_parameters]
    ELSE [started |-> TRUE, call_stack |-> push_global_init(call_stack), result |-> Ok]

\* the return with an error of the initializer propagated before pop_call
run_script_initializer_return_early(call_stack, r) ==
    IF r.tag = "Err" THEN [call_stack |-> call_stack, result |-> r]
    ELSE [call_stack |-> pop_call(call_stack), result |-> Ok]

\* Avm2::run_script_initializer from the return of the initializer with r:
\* pop_call, then `r?` and Ok(())
run_script_initializer_return(call_stack, r) ==
    [call_stack |-> pop_call(call_stack), result |-> IF r.tag = "Err" THEN r ELSE Ok]

\* run_script_initializer is called, by the host or by code that is running
RunScriptInitializer(method, from_script, resolve_parameters) ==
    /\ Len(calls.running) < MaxCallDepth
    /\ LET entered == run_script_initializer_entry(calls.call_stack, method, from_script,
                                                 resolve_parameters)
           before == Len(calls.call_stack)
       IN  calls' = IF entered.started
                    THEN [call_stack |-> entered.call_stack,
                          running |-> Append(calls.running,
                                             [kind |-> "script", method |-> method,
                                              before |-> before]),
                          last |-> [op |-> "call", before |-> before,
                                    after |-> Len(entered.call_stack), result |-> Ok,
                                    pushed |-> TRUE]]
                    ELSE [calls EXCEPT
                            !.last = [op |-> "run_script_initializer", before |-> before,
                                      after |-> Len(entered.call_stack),
                                      result |-> entered.result, pushed |-> FALSE]]

\* the code that is running calls a function: push_call by the callee
CallFunction(calling) ==
    /\ calls.running # <<>>
    /\ Len(calls.running) < MaxCallDepth
    /\ calls' = [call_stack |-> push_call(calls.call_stack, calling),
                 running |-> Append(calls.running,
                                    [kind |-> "function", method |-> calling,
                                     before |-> Len(calls.call_stack)]),
                 last |-> [op |-> "call", before |-> Len(calls.call_stack),
                           after |-> Len(calls.call_stack) + 1, result |-> Ok,
                           pushed |-> FALSE]]

\* the code that runs innermost returns r: a function pops its call, a
\* script initializer returns to run_script_initializer
Return(r) ==
    /\ calls.running # <<>>
    /\ LET top == calls.running[Len(calls.running)]
           returned == IF top.kind = "script"
                       THEN run_script_initializer_return(calls.call_stack, r)
                       ELSE [call_stack |-> pop_call(calls.call_stack), result |-> r]
       IN  calls' = [call_stack |-> returned.call_stack,
                     running |-> SubSeq(calls.running, 1, Len(calls.running) - 1),
                     last |-> [op |-> IF top.kind = "script" THEN "run_script_initializer"
                                      ELSE "return",
                               before |-> top.before,
                               after |-> Len(returned.call_stack),
                               result |-> returned.result, pushed |-> FALSE]]

call_others == <<verify_vars, stack_vars, broadcast_vars, abc,
                 loading, generic, number, dispatch, prefs, cinit>>

ScriptErrors == {Err("from_script"), Err("resolve_parameters")}

NextCalls ==
    \/ \E method \in {"Native", "Bytecode"}, from_script \in {Ok, Err("from_script")},
          resolve_parameters \in {Ok, Err("resolve_parameters")} :
         RunScriptInitializer(method, from_script, resolve_parameters)
           /\ UNCHANGED call_others
    \/ \E calling \in {"f", "g"} : CallFunction(calling) /\ UNCHANGED call_others
    \/ \E r \in {Ok, Err("thrown")} : Return(r) /\ UNCHANGED call_others

SpecCalls == InitStack /\ [][NextCalls]_vars

-----------------------------------------------------------------------------
(* C35 *)

\* C35: when run_script_initializer returns, with Ok, with the error of the
\* parameter check of a native initializer or with the error of the
\* initializer, the call stack has the depth it had when it was called and
\* the entries it had then; the marker is pushed only by the call that then
\* runs the initializer, and it lies on top of the call stack at that moment.
C35_DepthRestored ==
    /\ calls.last.op = "run_script_initializer" =>
          /\ calls.last.after = calls.last.before
          /\ Len(calls.call_stack) = calls.last.before
    /\ calls.last.pushed <=>
          /\ calls.last.op = "call"
          /\ calls.running # <<>>
          /\ calls.running[Len(calls.running)].kind = "script"
    /\ calls.last.pushed =>
          /\ calls.call_stack[Len(calls.call_stack)] = GlobalInit
          /\ calls.last.after = calls.last.before + 1
    /\ Len(calls.call_stack) = Len(calls.running)
    /\ \A k \in 1..Len(calls.running) :
          calls.call_stack[k] = GlobalInit <=> calls.running[k].kind = "script"

\* a bytecode initializer called from a function of another initializer has
\* returned an error, and the call stack is that of the function again
C35_Witness ==
    /\ calls.last.op = "run_script_initializer"
    /\ calls.last.result = Err("thrown")
    /\ calls.last.before = 2
    /\ calls.call_stack = <<GlobalInit, CallNode("f")>>

\* the parameter check of a native initializer has failed
C35_ParametersRejected ==
    /\ calls.last.op = "run_script_initializer"
    /\ calls.last.result = Err("resolve_parameters")
    /\ calls.last.before = 1
    /\ calls.call_stack = <<GlobalInit>>

-----------------------------------------------------------------------------
(* C36 *)

\* C36: validate_class called without superclass on a class that is not a
\* system class returns Ok whatever the instance traits of the class are,
\* traits with the attribute override included.
C36_NoSuperclass ==
    (/\ verify.result # None
     /\ verify.superclass = None
     /\ ~classes[verify.class].is_system) => verify.result = "Ok"

\* validate_class without superclass has returned Ok for a class that is not
\* a system class and has a trait with override and a trait that clashes
\* with a final trait of an ancestor
C36_Witness ==
    /\ verify.result = "Ok"
    /\ verify.superclass = None
    /\ ~classes[verify.class].is_system
    /\ \E i \in 1..Len(OwnTraits) : OwnTraits[i].is_override
    /\ validate_class(verify.class, classes[verify.class].super_class) # "Ok"

-----------------------------------------------------------------------------
(* C37 *)

\* a step that is a call of load_traits
LoadTraitsCalled == loading.created /\ loading'.calls = loading.calls + 1

\* the class holds fewer traits than the class of the ABC file
TraitsMissing(l) ==
    \/ Len(l.class.instance_traits) < Len(l.unit.instances[1].traits)
    \/ Len(l.class.class_traits) < Len(l.unit.classes[1].traits)

\* the traits of the class are those that precede the first trait of the
\* ABC file that does not convert
AppendedSoFar(l) ==
    LET instance_traits == Converted(l.unit.instances[1].traits) IN
    /\ l.class.instance_traits = instance_traits
    /\ l.class.class_traits =
          IF Len(instance_traits) < Len(l.unit.instances[1].traits) THEN <<>>
          ELSE Converted(l.unit.classes[1].traits)

\* a load_traits call that fails in from_abc_trait leaves the flag set and
\* the traits converted before the failure in the class
C37_FailedStep ==
    (LoadTraitsCalled /\ loading'.result = Err("from_abc_trait"))
      => /\ loading'.class.traits_loaded
         /\ AppendedSoFar(loading')
         /\ TraitsMissing(loading')

\* a load_traits call on a class with the flag set and traits missing
\* returns Ok and the traits are still missing
C37_LaterStep ==
    (LoadTraitsCalled /\ loading.class.traits_loaded /\ TraitsMissing(loading))
      => /\ loading'.result = Ok
         /\ loading'.class = loading.class
         /\ TraitsMissing(loading')

\* C37: when load_traits fails while it converts a trait, traits_loaded
\* stays set and the traits appended before the failure stay in
\* instance_traits and class_traits; every later load_traits call on the
\* class returns Ok and loads none of the missing traits.
C37_NeverLoaded == [][C37_FailedStep /\ C37_LaterStep]_vars

\* load_traits failed on the second instance trait of a class with a class
\* trait, and a later call with the same index has returned Ok: the class
\* has one instance trait and no class trait
C37_Witness ==
    /\ loading.created
    /\ loading.calls = 2
    /\ loading.class_index = 0
    /\ loading.result = Ok
    /\ loading.class.traits_loaded
    /\ Len(loading.unit.instances[1].traits) = 2
    /\ Len(loading.class.instance_traits) = 1
    /\ Len(loading.unit.classes[1].traits) = 1
    /\ loading.class.class_traits = <<>>
    /\ from_abc_trait(loading.unit, loading.unit.instances[1].traits[2]).tag = "Err"

-----------------------------------------------------------------------------
(* C38 *)

\* the listeners of the bucket at the start of the call up to the one at
\* index i, the index of the loop
UpToIndex(b) == SubSeq(b.start_bucket, 1, b.i + 1)

\* the listeners of the bucket at the start of the call after index i
AfterIndex(b) == SubSeq(b.start_bucket, b.i + 2, Len(b.start_bucket))

\* broadcast_event has returned the error of a dispatch: the listeners of
\* the type up to the one whose dispatch failed have received the event,
\* none after it has, and the bucket holds what it held, in the same order
C38_Failed ==
    (Broadcasting /\ bcast.result = "Err") =>
        /\ bcast.state = "done"
        /\ bcast.i < bcast.el_length
        /\ bcast.delivered = OfType(UpToIndex(bcast), bcast.on_type)
        /\ bcast.delivered[Len(bcast.delivered)] = bcast.start_bucket[bcast.i + 1]
        /\ Range(AfterIndex(bcast)) \cap Range(bcast.delivered) = {}
        /\ IsPrefix(bcast.start_bucket, Bucket(bcast.event_name))

\* the return of the error is one step from the failed dispatch, and it
\* changes neither the broadcast list nor the listeners reached; after it
\* nothing is dispatched until broadcast_event is called again
C38_FailStep ==
    /\ (bcast.state = "handler" /\ bcast'.result = "Err") =>
          /\ bcast'.state = "done"
          /\ bcast'.delivered = bcast.delivered
          /\ bcast'.i = bcast.i
          /\ broadcast_list' = broadcast_list
    /\ (bcast.result = "Err" /\ bcast' # bcast) => bop'.op = "broadcast"

\* C38: when the dispatch to a listener fails, broadcast_event stops and
\* returns the error: the listeners before it in the bucket that the
\* broadcast addresses have received the event, no listener after it in the
\* bucket receives it, and the bucket is unchanged.
C38_StopsAtError == []C38_Failed /\ [][C38_FailStep]_vars

\* the dispatch to the second of three listeners of an enterFrame broadcast
\* has failed: the first two have received the event, the third has not
C38_Witness ==
    /\ bcast.state = "done"
    /\ bcast.result = "Err"
    /\ bcast.event_name = "enterFrame"
    /\ Len(bcast.start_bucket) = 3
    /\ bcast.delivered = SubSeq(bcast.start_bucket, 1, 2)
    /\ Bucket("enterFrame") = bcast.start_bucket

-----------------------------------------------------------------------------
(* C39 *)

\* the greatest and the least index of a set of scripts
HighestOf(indices) == CHOOSE i \in indices : \A o \in indices : o <= i

LowestOf(indices) == CHOOSE j \in indices : \A o \in indices : j <= o

\* load_script fails for script i, the first one to fail: do_abc returns its
\* error, the scripts above i are registered, no script below i is, and no
\* globals are materialized
LoadScriptFailed ==
    abc.load_fails # {} =>
        LET i == HighestOf(abc.load_fails) IN
        /\ abc.result = Err(RustError("load_script", i))
        /\ \A s \in DOMAIN abc.tunit.scripts :
              /\ s > i => abc.tunit.scripts[s]
              /\ s < i => ~abc.tunit.scripts[s]
        /\ abc.tunit.materialized = <<>>

\* the globals of script j fail, the first to fail, in a call without
\* LAZY_INITIALIZE in which every script was registered: do_abc returns the
\* error, and the globals of the scripts above j are not materialized
GlobalsFailed ==
    (abc.load_fails = {} /\ abc.globals_fail # {}
        /\ LAZY_INITIALIZE \notin abc.tag.flags) =>
        LET j == LowestOf(abc.globals_fail) IN
        /\ abc.result = Err(RustError("globals", j))
        /\ \A s \in DOMAIN abc.tunit.scripts : abc.tunit.scripts[s]
        /\ \A s \in Range(abc.tunit.materialized) : s < j

\* C39: when load_script fails for script i, do_abc returns that error at
\* once: the scripts with an index above i stay registered, none with an
\* index below i is registered and no globals are materialized, with or
\* without LAZY_INITIALIZE; when the globals of script j fail, do_abc returns
\* that error and the globals of the scripts j+1.. stay unmaterialized.
C39_FirstError ==
    (abc.called /\ abc.tag.data.valid) => (LoadScriptFailed /\ GlobalsFailed)

\* load_script failed for script 1 of three in a call without
\* LAZY_INITIALIZE: script 2 is registered, script 0 is not
C39_Witness ==
    /\ abc.called
    /\ abc.tag.flags = {}
    /\ abc.tag.data.num_scripts = 3
    /\ abc.load_fails = {1}
    /\ abc.tunit.loaded = <<2>>
    /\ abc.result.tag = "Err"

\* the globals of script 1 of three failed: those of script 0 are
\* materialized, those of script 2 are not
C39_GlobalsWitness ==
    /\ abc.called
    /\ abc.tag.flags = {}
    /\ abc.load_fails = {}
    /\ abc.globals_fail = {1}
    /\ abc.tunit.loaded = <<2, 1, 0>>
    /\ abc.tunit.materialized = <<0>>
    /\ abc.result.tag = "Err"

-----------------------------------------------------------------------------
(* C40 *)

\* the number of values above the base of the current activation
AboveBase == Len(stack) - CurrentFrame.stack_depth

\* pop_args(n, depth) with k < n values above the base: the array has n
\* entries, the last k are the k values in push order and the first n-k are
\* undefined; the stack is cut to the base, and what lies below is kept
C40_UnderflowStep ==
    (last'.op = "pop_args" /\ AboveBase < last'.arg) =>
        LET n == last'.arg
            k == AboveBase
        IN  /\ Len(last'.ret) = n
            /\ SubSeq(last'.ret, n - k + 1, n) = TopEntries(stack, k)
            /\ \A x \in 1..(n - k) : last'.ret[x] = Undefined
            /\ Len(stack') = CurrentFrame.stack_depth
            /\ stack' = SubSeq(stack, 1, CurrentFrame.stack_depth)

\* C40: when only k < n values lie above the base of the activation,
\* pop_args(n, depth) returns an array of length n whose last k entries are
\* the k values in push order and whose first n-k entries are undefined; the
\* stack ends at the base and no entry below the base is consumed.
C40_FewerThanAsked == [][C40_UnderflowStep]_vars

\* two arguments were asked for above a base with an entry below it, and
\* one value was there: the array is undefined followed by that value, and
\* the entry below the base is still on the stack
C40_Witness ==
    /\ last.op = "pop_args"
    /\ last.arg = 2
    /\ last.ret = <<Undefined, Integer(1)>>
    /\ frames # <<>>
    /\ CurrentFrame.stack_depth = 1
    /\ stack = <<ScriptObject>>

=============================================================================
